---- MODULE Spec2Model ----
(***************************************************************************)
(* A model of the agentfs sandbox core: the VFS adapter over the AgentFS   *)
(* store (sandbox/src/vfs/sqlite.rs) and the overlay of a read-only base   *)
(* with the AgentFS delta, the deferred notifier, the connection pool      *)
(* (sdk/rust/src/connection_pool.rs), daemonize (cli/src/daemon.rs), the   *)
(* Mutexes of a handle and the link counts of the store.                   *)
(*                                                                         *)
(* Strings are sequences of one-character strings, so that prefix tests,   *)
(* splitting and trimming are computed as the code computes them.          *)
(***************************************************************************)
EXTENDS Integers, Sequences, FiniteSets, TLC

VARIABLES
    pathArg,    \* SpecPath: the guest path handed to the adapter
    pathRes,    \* SpecPath: the entry point called and its result
    inodes,     \* AgentFS store: ino -> [kind, data]
    dirents,    \* AgentFS store: set of [parent, name, child]
    handles,    \* the SqliteFileOps / SqliteDirectoryOps objects, by handle id
    calls,      \* the suspended async calls (fsync / close), by thread
    content0,   \* the content of file "f" before any handle was opened
    ret,        \* the last call of the adapter that returned a value, and the value
    base,       \* overlay: the read-only base layer, path -> entry
    delta,      \* overlay: the delta's dirents (regular entries and whiteouts)
    opaque,     \* overlay: the directories marked opaque in the delta
    ovlOp,      \* overlay: the last operation and its result
    senders,    \* notifier: the DeferredNotifier clones not yet dropped
    sent,       \* notifier: the number of messages each clone has sent
    queue,      \* notifier: the messages in the mpsc channel
    consumer,   \* notifier: the notify thread, its position and its message
    dispatched, \* notifier: the messages written to the kernel channel, in order
    pool,       \* connection pool: the idle stack (Vec<Connection>)
    wrappers,   \* connection pool: the connection of each live PooledConnection
    opened,     \* connection pool: the number of connections db.connect() returned
    getting,    \* connection pool: the get_conn call of each thread
    peak,       \* connection pool: the most PooledConnections alive at once so far (history)
    childProc,  \* daemonize: the forked child, its position, its signal_parent call, its exit
    dthread,    \* daemonize: the daemon thread and the error_msg it shares with the child
    clock,      \* daemonize: the time since the polling loop started, and the timeout
    pipe,       \* daemonize: the bytes in the pipe and the processes holding its write end
    parentProc, \* daemonize: the parent, its position in wait_for_signal, its result
    locks,      \* handle locks: the thread that holds each Mutex of a handle
    lthreads    \* handle locks: the call each thread is in, and its position

pathVars == <<pathArg, pathRes>>
vfsVars == <<inodes, dirents, handles, calls, content0, ret>>
ovlVars == <<base, delta, opaque, ovlOp>>
notifyVars == <<senders, sent, queue, consumer, dispatched>>
poolVars == <<pool, wrappers, opened, getting, peak>>
daemonVars == <<childProc, dthread, clock, pipe, parentProc>>
lockVars == <<locks, lthreads>>
vars == <<pathArg, pathRes, inodes, dirents, handles, calls, content0, ret,
          base, delta, opaque, ovlOp, senders, sent, queue, consumer, dispatched,
          pool, wrappers, opened, getting, peak, childProc, dthread, clock, pipe,
          parentProc, locks, lthreads>>

\* The notifier and the connection pool, which the file system does not touch.
sideVars == <<notifyVars, poolVars, daemonVars, lockVars>>

\* What the calls of the VFS adapter leave alone.
otherVars == <<pathVars, ovlVars, sideVars>>

\* What a call of the adapter that records no return value leaves alone.
nonVfsVars == <<otherVars, ret>>

\* ---------------------------------------------------------------- bounds

\* Longest guest path drawn in SpecPath.
MaxPathLen == 4

\* Longest initial content of file "f".
MaxInitLen == 2

\* The number of bytes written through one handle.
MaxWritten == 1

\* The number of bytes each handle appends in SpecAppend.
AppendLen == 4

\* The largest offset a seek moves a handle to.
MaxSeek == 3

\* The largest buffer handed to read.
MaxRead == 2

\* The number of bytes written through the handle of SpecRW.
MaxRW == 2

\* The number of files unlinked while a handle is open on them.
MaxUnlinks == 1

\* The number of messages each DeferredNotifier clone sends.
MaxSend == 2

\* The number of PooledConnections alive or being made at once.
MaxHeld == 3

\* The number of connections db.connect() is asked for.
MaxConns == 3

\* ------------------------------------------------------------- constants

ROOT_INO == 1

\* The mount point the adapter was constructed with: "/m".
MountPoint == <<"/", "m">>

\* Characters guest paths are drawn from in SpecPath.
PathChars == {"/", "m", "f"}

Ok(v) == [ok |-> TRUE, val |-> v]
Err(e) == [ok |-> FALSE, err |-> e]

\* -------------------------------------------------------- string helpers

\* str::starts_with
StartsWith(s, p) == Len(p) <= Len(s) /\ SubSeq(s, 1, Len(p)) = p

\* str::strip_prefix: the remainder after p (only used when StartsWith holds)
StripPrefix(s, p) == SubSeq(s, Len(p) + 1, Len(s))

\* s.split('/').filter(|c| !c.is_empty()), as a sequence of components
RECURSIVE SplitFrom(_, _, _)
SplitFrom(s, i, cur) ==
    IF i > Len(s)
    THEN IF cur = <<>> THEN <<>> ELSE <<cur>>
    ELSE IF s[i] = "/"
         THEN (IF cur = <<>> THEN <<>> ELSE <<cur>>) \o SplitFrom(s, i + 1, <<>>)
         ELSE SplitFrom(s, i + 1, Append(cur, s[i]))

Components(s) == SplitFrom(s, 1, <<>>)

\* str::trim_end_matches('/')
RECURSIVE TrimEndSlashes(_)
TrimEndSlashes(s) ==
    IF s # <<>> /\ s[Len(s)] = "/" THEN TrimEndSlashes(SubSeq(s, 1, Len(s) - 1)) ELSE s

\* str::rfind('/') as a 0-based position, -1 when there is none
RFindSlash(s) ==
    LET hits == {i \in 1..Len(s) : s[i] = "/"}
    IN IF hits = {} THEN -1 ELSE (CHOOSE i \in hits : \A j \in hits : j <= i) - 1

\* ------------------------------------------------------ path translation

\* SqliteVfs::translate_to_relative
translate_to_relative(path) ==
    IF path = MountPoint
    THEN Ok(<<"/">>)
    ELSE IF StartsWith(path, MountPoint \o <<"/">>)
         THEN Ok(<<"/">> \o StripPrefix(path, MountPoint \o <<"/">>))
         ELSE Err("NotFound")

\* Vfs::translate_path for SqliteVfs
translate_path(path) ==
    IF StartsWith(path, MountPoint) THEN Ok(path) ELSE Err("NotFound")

\* SqliteVfs::split_path: (parent, name) of a relative path
split_path(path) ==
    IF path = <<"/">>
    THEN Err("InvalidInput")
    ELSE LET p == TrimEndSlashes(path)
             pos == RFindSlash(p)
         IN IF pos >= 0
            THEN Ok([parent |-> IF pos = 0 THEN <<"/">> ELSE SubSeq(p, 1, pos),
                     name |-> SubSeq(p, pos + 2, Len(p))])
            ELSE Ok([parent |-> <<"/">>, name |-> p])

\* ------------------------------------------------------------- SpecPath
\* The path-translating entry points applied to every guest path of at most
\* MaxPathLen characters.

RECURSIVE StringsUpTo(_)
StringsUpTo(n) ==
    IF n = 0 THEN {<<>>}
    ELSE LET shorter == StringsUpTo(n - 1)
         IN shorter \cup {Append(s, c) : s \in {t \in shorter : Len(t) = n - 1}, c \in PathChars}

GuestPaths == StringsUpTo(MaxPathLen)

VfsIdle ==
    /\ inodes = <<>>
    /\ dirents = {}
    /\ handles = <<>>
    /\ calls = <<>>
    /\ content0 = <<>>
    /\ ret = [op |-> "none"]

OvlIdle ==
    /\ base = <<>>
    /\ delta = {}
    /\ opaque = {}
    /\ ovlOp = [op |-> "none"]

NotifyIdle ==
    /\ senders = {}
    /\ sent = <<>>
    /\ queue = <<>>
    /\ consumer = [pc |-> "none"]
    /\ dispatched = <<>>

PoolIdle ==
    /\ pool = <<>>
    /\ wrappers = <<>>
    /\ opened = 0
    /\ getting = <<>>
    /\ peak = 0

DaemonIdle ==
    /\ childProc = [pc |-> "none"]
    /\ dthread = [st |-> "none"]
    /\ clock = [now |-> 0]
    /\ pipe = [bytes |-> <<>>]
    /\ parentProc = [pc |-> "none"]

LockIdle ==
    /\ locks = <<>>
    /\ lthreads = <<>>

SideIdle == NotifyIdle /\ PoolIdle /\ DaemonIdle /\ LockIdle

PathInit ==
    /\ pathArg \in GuestPaths
    /\ pathRes = [op |-> "none"]
    /\ VfsIdle
    /\ OvlIdle
    /\ SideIdle

TranslatePath ==
    /\ pathRes.op = "none"
    /\ pathRes' = [op |-> "translate_path", r |-> translate_path(pathArg)]
    /\ UNCHANGED <<pathArg, vfsVars, ovlVars, sideVars>>

\* open, stat, lstat, symlink, readlink and link all begin with
\* translate_to_relative and return its error.
TranslateToRelative ==
    /\ pathRes.op = "none"
    /\ pathRes' = [op |-> "translate_to_relative", r |-> translate_to_relative(pathArg)]
    /\ UNCHANGED <<pathArg, vfsVars, ovlVars, sideVars>>

PathNext == TranslatePath \/ TranslateToRelative

SpecPath == PathInit /\ [][PathNext]_vars

\* The guest path equals the mount point or lies strictly beneath it.
UnderMount(p) ==
    \/ p = MountPoint
    \/ /\ Len(p) > Len(MountPoint)
       /\ \A i \in 1..Len(MountPoint) : p[i] = MountPoint[i]
       /\ p[Len(MountPoint) + 1] = "/"

\* C6: every path-translating entry point accepts the guest path if and only
\* if it equals the mount point or lies strictly beneath it; a path that only
\* shares the mount point as a string prefix is rejected with NotFound.
C6_AcceptsIffUnderMount ==
    pathRes.op # "none" =>
        /\ pathRes.r.ok <=> UnderMount(pathArg)
        /\ ~pathRes.r.ok => pathRes.r.err = "NotFound"

\* ------------------------------------------------------- the AgentFS store
\* The FileSystem capability the adapter calls (fs: Arc<dyn FileSystem>):
\* inodes is ino -> [kind, data], dirents the set of (parent, name, child).

Min(a, b) == IF a <= b THEN a ELSE b
Max(a, b) == IF a >= b THEN a ELSE b

Zeros(n) == [i \in 1..n |-> 0]

\* Stats of no inode: lookup / getattr returned None.
NoStats == [ino |-> 0, kind |-> "none", size |-> 0]

\* FileSystem::getattr
fs_getattr(ino) ==
    IF ino \in DOMAIN inodes /\ inodes[ino].kind # "none"
    THEN [ino |-> ino, kind |-> inodes[ino].kind, size |-> Len(inodes[ino].data)]
    ELSE NoStats

\* FileSystem::lookup: exact match of the name in the parent
fs_lookup(parent, name) ==
    LET hits == {d \in dirents : d.parent = parent /\ d.name = name}
    IN IF hits = {} THEN NoStats ELSE fs_getattr((CHOOSE d \in hits : TRUE).child)

\* File::pread: a short read at the end of the content
fs_pread(data, off, len) == SubSeq(data, off + 1, Min(off + len, Len(data)))

\* File::pwrite: the content after writing buf at off (zero fill up to off, the
\* bytes after the written range are kept)
fs_pwrite(data, off, buf) ==
    LET padded == IF Len(data) < off THEN data \o Zeros(off - Len(data)) ELSE data
    IN [i \in 1..Max(Len(padded), off + Len(buf)) |->
            IF i > off /\ i <= off + Len(buf) THEN buf[i - off] ELSE padded[i]]

\* File::truncate: discards on shrink, zero-fills on grow
fs_truncate(data, n) == [i \in 1..n |-> IF i <= Len(data) THEN data[i] ELSE 0]

\* The inode number create_file assigns: the next unused row.
NextIno == Len(inodes) + 1

\* ------------------------------------------------------- SqliteVfs::open

O_CREAT == "O_CREAT"
O_EXCL == "O_EXCL"
O_TRUNC == "O_TRUNC"
O_APPEND == "O_APPEND"

\* Option<DirEntryList>: None
NoEntries == [some |-> FALSE, list |-> <<>>]

\* No handle object: never opened. A file handle uses data, offset and dirty,
\* a directory handle entries and position; written, nreaddir and got keep
\* what was done through the handle (bytes written, readdir_plus calls,
\* entries returned by getdents).
NoHandle ==
    [state |-> "none", kind |-> "none", ino |-> 0, path |-> <<>>, data |-> <<>>,
     offset |-> 0, flags |-> {}, dirty |-> FALSE, written |-> 0,
     entries |-> NoEntries, position |-> 0, nreaddir |-> 0, got |-> <<>>]

\* The walk of resolve_path and get_or_create_ino: lookup of each component
RECURSIVE Walk(_, _)
Walk(ino, comps) ==
    IF comps = <<>>
    THEN Ok(ino)
    ELSE LET stats == fs_lookup(ino, Head(comps))
         IN IF stats.ino = 0 THEN Err("NotFound") ELSE Walk(stats.ino, Tail(comps))

\* SqliteVfs::resolve_path
resolve_path(path) ==
    IF path = <<"/">> THEN Ok(ROOT_INO) ELSE Walk(ROOT_INO, Components(path))

\* open_existing with the dirty bit left clear under O_TRUNC: close would
\* flush nothing.
open_existing_trunc_clean(stats, rel, flags) ==
    Ok([NoHandle EXCEPT !.state = "open", !.kind = IF stats.kind = "dir" THEN "dir" ELSE "file",
                        !.ino = stats.ino, !.path = rel, !.flags = flags,
                        !.data = IF stats.kind = "dir" \/ O_TRUNC \in flags
                                 THEN <<>>
                                 ELSE fs_pread(inodes[stats.ino].data, 0, stats.size)])

\* open_existing with a buffer that is never read from the store.
open_existing_unread(stats, rel, flags) ==
    Ok([NoHandle EXCEPT !.state = "open", !.kind = IF stats.kind = "dir" THEN "dir" ELSE "file",
                        !.ino = stats.ino, !.path = rel, !.flags = flags,
                        !.dirty = (O_TRUNC \in flags)])

\* open, the target exists: a directory handle, or a file handle whose buffer
\* is read from the store unless O_TRUNC is set
open_existing(stats, rel, flags) ==
    IF stats.kind = "dir"
    THEN Ok([NoHandle EXCEPT !.state = "open", !.kind = "dir", !.ino = stats.ino,
                             !.path = rel, !.flags = flags])
    ELSE Ok([NoHandle EXCEPT !.state = "open", !.kind = "file", !.ino = stats.ino,
                             !.path = rel, !.flags = flags,
                             !.data = IF O_TRUNC \in flags
                                      THEN <<>>
                                      ELSE fs_pread(inodes[stats.ino].data, 0, stats.size),
                             !.dirty = (O_TRUNC \in flags)])

\* open_missing with the dirty bit left clear: nothing would make close
\* create the file.
open_missing_clean(rel, flags) ==
    IF O_CREAT \in flags
    THEN Ok([NoHandle EXCEPT !.state = "open", !.kind = "file", !.ino = 0,
                             !.path = rel, !.flags = flags, !.dirty = FALSE])
    ELSE Err("NotFound")

\* open, the target does not exist: with O_CREAT a handle with inode 0, an
\* empty buffer and the dirty bit set; the store is not touched
open_missing(rel, flags) ==
    IF O_CREAT \in flags
    THEN Ok([NoHandle EXCEPT !.state = "open", !.kind = "file", !.ino = 0,
                             !.path = rel, !.flags = flags, !.dirty = TRUE])
    ELSE Err("NotFound")

\* The stats open starts from: getattr of the root, or lookup of the final
\* component in the resolved parent
open_stats(rel) ==
    IF rel = <<"/">>
    THEN Ok(fs_getattr(ROOT_INO))
    ELSE LET sp == split_path(rel)
         IN IF ~sp.ok THEN sp
            ELSE LET parent == resolve_path(sp.val.parent)
                 IN IF ~parent.ok THEN parent
                    ELSE Ok(fs_lookup(parent.val, sp.val.name))

\* SqliteVfs::open: the handle it returns, or the error
open(path, flags) ==
    LET rel == translate_to_relative(path)
    IN IF ~rel.ok THEN rel
       ELSE LET stats == open_stats(rel.val)
            IN IF ~stats.ok THEN stats
               ELSE IF stats.val.ino # 0
                    THEN open_existing(stats.val, rel.val, flags)
                    ELSE open_missing(rel.val, flags)

\* The next handle id: handles are numbered in the order they are opened.
FreeHandle(h) ==
    /\ handles[h].state = "none"
    /\ \A g \in DOMAIN handles : g < h => handles[g].state # "none"

Open(h, path, flags) ==
    /\ FreeHandle(h)
    /\ open(path, flags).ok
    /\ handles' = [handles EXCEPT ![h] = open(path, flags).val]
    /\ UNCHANGED <<inodes, dirents, calls, content0, nonVfsVars>>

\* ---------------------------------------------------- SqliteFileOps

\* A write that starts at the offset also under O_APPEND.
write_at_offset(hd, buf) ==
    LET start == hd.offset
        resized == IF start + Len(buf) > Len(hd.data)
                   THEN hd.data \o [i \in 1..(start + Len(buf) - Len(hd.data)) |-> 0]
                   ELSE hd.data
    IN [hd EXCEPT !.data = [i \in 1..Len(resized) |->
                               IF i > start /\ i <= start + Len(buf)
                               THEN buf[i - start] ELSE resized[i]],
                  !.offset = start + Len(buf),
                  !.dirty = TRUE,
                  !.written = @ + Len(buf)]

\* A write that fills the gap before its start with the byte 1.
write_fill_ones(hd, buf) ==
    LET start == IF O_APPEND \in hd.flags THEN Len(hd.data) ELSE hd.offset
        resized == IF start + Len(buf) > Len(hd.data)
                   THEN hd.data \o [i \in 1..(start + Len(buf) - Len(hd.data)) |-> 1]
                   ELSE hd.data
    IN [hd EXCEPT !.data = [i \in 1..Len(resized) |->
                               IF i > start /\ i <= start + Len(buf)
                               THEN buf[i - start] ELSE resized[i]],
                  !.offset = start + Len(buf),
                  !.dirty = TRUE,
                  !.written = @ + Len(buf)]

\* SqliteFileOps::write on the handle hd: the handle after the call
write(hd, buf) ==
    LET start == IF O_APPEND \in hd.flags THEN Len(hd.data) ELSE hd.offset
        resized == IF start + Len(buf) > Len(hd.data)
                   THEN hd.data \o Zeros(start + Len(buf) - Len(hd.data))
                   ELSE hd.data
    IN [hd EXCEPT !.data = [i \in 1..Len(resized) |->
                               IF i > start /\ i <= start + Len(buf)
                               THEN buf[i - start] ELSE resized[i]],
                  !.offset = start + Len(buf),
                  !.dirty = TRUE,
                  !.written = @ + Len(buf)]

Write(h, buf) ==
    /\ handles[h].state = "open"
    /\ handles[h].kind = "file"
    /\ handles' = [handles EXCEPT ![h] = write(handles[h], buf)]
    /\ UNCHANGED <<inodes, dirents, calls, content0, nonVfsVars>>

\* SqliteFileOps::get_or_create_ino: the inode of the handle, or the
\* create_file it needs (parent, name), or the error
get_or_create_ino(hd) ==
    IF hd.ino # 0
    THEN [ok |-> TRUE, ino |-> hd.ino, create |-> FALSE]
    ELSE LET sp == split_path(hd.path)
         IN IF ~sp.ok THEN sp
            ELSE LET parent == Walk(ROOT_INO, Components(sp.val.parent))
                 IN IF ~parent.ok THEN parent
                    ELSE IF fs_lookup(parent.val, sp.val.name).ino # 0
                         THEN Err("Other")   \* create_file: AlreadyExists
                         ELSE [ok |-> TRUE, ino |-> NextIno, create |-> TRUE,
                               parent |-> parent.val, name |-> sp.val.name]

\* The create_file of get_or_create_ino: a new empty file inode and its dirent
create_file(r) ==
    /\ inodes' = Append(inodes, [kind |-> "file", data |-> <<>>])
    /\ dirents' = dirents \cup {[parent |-> r.parent, name |-> r.name, child |-> r.ino]}

\* SqliteFileOps::fstat: get_or_create_ino, getattr, and the size of the
\* buffer; the handle is not changed
Fstat(h) ==
    /\ handles[h].state = "open"
    /\ handles[h].kind = "file"
    /\ LET r == get_or_create_ino(handles[h])
       IN IF r.ok /\ r.create
          THEN create_file(r)
          ELSE UNCHANGED <<inodes, dirents>>
    /\ UNCHANGED <<handles, calls, content0, nonVfsVars>>

\* A thread that is in no call.
IdleCall ==
    [pc |-> "idle", op |-> "none", h |-> 0, data |-> <<>>, ino |-> 0, before |-> <<>>]

\* The next thread: a call is started on the lowest idle thread.
FreeThread(t) ==
    /\ calls[t].pc = "idle"
    /\ \A u \in DOMAIN calls : u < t => calls[u].pc # "idle"

\* The handle when the call of thread t returns r: close() ends the handle's
\* life, whatever its fsync returned.
HandleAfter(t, hd, r) ==
    IF calls[t].op = "close"
    THEN [hd EXCEPT !.state = IF r = "Ok" THEN "closed" ELSE "close_failed"]
    ELSE hd

\* fsync / close, line 478: read the dirty bit; return Ok when it is clear
FsyncStart(t, h, op) ==
    /\ FreeThread(t)
    /\ handles[h].state = "open"
    /\ handles[h].kind = "file"
    /\ LET c == [IdleCall EXCEPT !.op = op, !.h = h]
       IN IF handles[h].dirty
          THEN /\ calls' = [calls EXCEPT ![t] = [c EXCEPT !.pc = "clone"]]
               /\ UNCHANGED handles
          ELSE /\ UNCHANGED calls
               /\ handles' = [handles EXCEPT ![h] =
                                 IF op = "close" THEN [@ EXCEPT !.state = "closed"] ELSE @]
    /\ UNCHANGED <<inodes, dirents, content0, nonVfsVars>>

\* fsync, line 483: clone the buffer
FsyncClone(t) ==
    /\ calls[t].pc = "clone"
    /\ calls' = [calls EXCEPT ![t] = [@ EXCEPT !.pc = "get_ino",
                                               !.data = handles[calls[t].h].data]]
    /\ UNCHANGED <<inodes, dirents, handles, content0, nonVfsVars>>

\* fsync, line 484: get_or_create_ino, which creates the file of a handle
\* whose inode is 0
FsyncGetIno(t) ==
    /\ calls[t].pc = "get_ino"
    /\ LET hd == handles[calls[t].h]
           r == get_or_create_ino(hd)
       IN IF ~r.ok
          THEN /\ calls' = [calls EXCEPT ![t] = IdleCall]
               /\ handles' = [handles EXCEPT ![calls[t].h] = HandleAfter(t, hd, "Err")]
               /\ UNCHANGED <<inodes, dirents>>
          ELSE /\ calls' = [calls EXCEPT ![t] = [@ EXCEPT !.pc = "pwrite", !.ino = r.ino]]
               /\ UNCHANGED handles
               /\ IF r.create
                  THEN create_file(r)
                  ELSE UNCHANGED <<inodes, dirents>>
    /\ UNCHANGED <<content0, nonVfsVars>>

\* fsync, lines 487-493: fs.open(ino) and file.pwrite(0, &data); a storage
\* error returns Err and leaves the dirty bit set
FsyncPwrite(t, ok) ==
    /\ calls[t].pc = "pwrite"
    /\ IF ok
       THEN /\ inodes' = [inodes EXCEPT ![calls[t].ino].data =
                                fs_pwrite(@, 0, calls[t].data)]
            /\ calls' = [calls EXCEPT ![t] = [@ EXCEPT !.pc = "truncate",
                                  !.before = inodes[calls[t].ino].data]]
            /\ UNCHANGED handles
       ELSE /\ calls' = [calls EXCEPT ![t] = IdleCall]
            /\ handles' = [handles EXCEPT ![calls[t].h] = HandleAfter(t, @, "Err")]
            /\ UNCHANGED inodes
    /\ UNCHANGED <<dirents, content0, nonVfsVars>>

\* fsync, lines 494-496: file.truncate(data.len())
FsyncTruncate(t, ok) ==
    /\ calls[t].pc = "truncate"
    /\ IF ok
       THEN /\ inodes' = [inodes EXCEPT ![calls[t].ino].data =
                                fs_truncate(@, Len(calls[t].data))]
            /\ calls' = [calls EXCEPT ![t].pc = "clear"]
            /\ UNCHANGED handles
       ELSE /\ calls' = [calls EXCEPT ![t] = IdleCall]
            /\ handles' = [handles EXCEPT ![calls[t].h] = HandleAfter(t, @, "Err")]
            /\ UNCHANGED inodes
    /\ UNCHANGED <<dirents, content0, nonVfsVars>>

\* fsync, line 499: clear the dirty bit and return Ok
FsyncClear(t) ==
    /\ calls[t].pc = "clear"
    /\ calls' = [calls EXCEPT ![t] = IdleCall]
    /\ handles' = [handles EXCEPT ![calls[t].h] =
                      HandleAfter(t, [@ EXCEPT !.dirty = FALSE], "Ok")]
    /\ UNCHANGED <<inodes, dirents, content0, nonVfsVars>>

\* ------------------------------------------------------ the VFS specs
\* The adapter over a store that holds the root directory and one file "f";
\* "g" does not exist.

PathF == MountPoint \o <<"/", "f">>
PathG == MountPoint \o <<"/", "g">>

\* The initial contents of "f": up to n bytes of value 1 (0 is the zero fill).
InitContents(n) == {[i \in 1..k |-> 1] : k \in 0..n}

\* The buffers handed to write: up to n bytes of value 2.
WriteBufs(n) == {[i \in 1..k |-> 2] : k \in 1..n}

\* The state after construction: file "f" holds one of `contents`; nhandles
\* handles can be opened and nthreads threads call into the adapter.
VfsInit(contents, nhandles, nthreads) ==
    /\ content0 \in contents
    /\ inodes = <<[kind |-> "dir", data |-> <<>>], [kind |-> "file", data |-> content0]>>
    /\ dirents = {[parent |-> ROOT_INO, name |-> <<"f">>, child |-> 2]}
    /\ handles = [h \in 1..nhandles |-> NoHandle]
    /\ calls = [t \in 1..nthreads |-> IdleCall]
    /\ ret = [op |-> "none"]
    /\ pathArg = <<>>
    /\ pathRes = [op |-> "none"]
    /\ OvlIdle
    /\ SideIdle

\* The calls of the adapter, with their arguments drawn from the given sets;
\* at most maxw bytes are written through one handle.
VfsNext(paths, flagsets, bufs, maxw) ==
    \/ \E h \in DOMAIN handles, path \in paths, flags \in flagsets : Open(h, path, flags)
    \/ \E h \in DOMAIN handles, buf \in bufs :
          handles[h].written + Len(buf) <= maxw /\ Write(h, buf)
    \/ \E h \in DOMAIN handles : Fstat(h)
    \/ \E t \in DOMAIN calls, h \in DOMAIN handles : FsyncStart(t, h, "fsync")
    \/ \E t \in DOMAIN calls, h \in DOMAIN handles : FsyncStart(t, h, "close")
    \/ \E t \in DOMAIN calls : FsyncClone(t)
    \/ \E t \in DOMAIN calls : FsyncGetIno(t)
    \/ \E t \in DOMAIN calls, ok \in BOOLEAN : FsyncPwrite(t, ok)
    \/ \E t \in DOMAIN calls, ok \in BOOLEAN : FsyncTruncate(t, ok)
    \/ \E t \in DOMAIN calls : FsyncClear(t)

OpenFlags == {{}, {O_CREAT}, {O_CREAT, O_EXCL}, {O_TRUNC}, {O_APPEND}}

\* Spec: two handles opened on "f" or "g" with any of OpenFlags, the calls
\* made one at a time.
VfsPaths == {PathF, PathG}
Bufs == WriteBufs(MaxWritten)
Init == VfsInit(InitContents(MaxInitLen), 2, 1)
Next == VfsNext(VfsPaths, OpenFlags, Bufs, MaxWritten)
Spec == Init /\ [][Next]_vars

\* SpecAppend: two handles on the existing file "f", both opened with
\* O_APPEND, each writing buffers of AppendLen bytes; two threads.
AppendBufs == {[i \in 1..AppendLen |-> b] : b \in {2, 3}}
AppendInit == VfsInit(InitContents(MaxInitLen), 2, 2)
AppendNext == VfsNext({PathF}, {{O_APPEND}}, AppendBufs, AppendLen)
SpecAppend == AppendInit /\ [][AppendNext]_vars

\* SpecShared: one handle on "f" shared by two threads.
SharedInit == VfsInit(InitContents(MaxInitLen), 1, 2)
SharedFlags == {{}, {O_TRUNC}}
SharedNext == VfsNext({PathF}, SharedFlags, Bufs, MaxWritten)
SpecShared == SharedInit /\ [][SharedNext]_vars

\* ------------------------------------------------------------ the claims

\* Handle h is returned by an open in this step.
Opened(h) == handles[h].state = "none" /\ handles'[h].state = "open"

\* The relative paths of "f" and "g".
RelPaths == {translate_to_relative(p).val : p \in VfsPaths}

\* Handle h is returned in this step by an open with O_CREAT of the relative
\* path p, whose final component did not exist.
OpenedMissing(h, p) ==
    /\ Opened(h)
    /\ handles'[h].path = p
    /\ O_CREAT \in handles'[h].flags
    /\ open_stats(p).val.ino = 0

\* No call is suspended on handle h.
Quiet(h) == \A t \in DOMAIN calls : calls[t].pc = "idle" \/ calls[t].h # h

\* The last n bytes of s.
Tail_n(s, n) == SubSeq(s, Len(s) - n + 1, Len(s))

Occurs(part, whole) ==
    \E k \in 0..(Len(whole) - Len(part)) : SubSeq(whole, k + 1, k + Len(part)) = part

\* C1: two handles on the same existing file, both O_APPEND, each writes
\* AppendLen (4) bytes and is closed: the stored file is 2 * AppendLen bytes
\* longer than before and contains both writes.
C1_BothAppendsStored ==
    (\A h \in DOMAIN handles :
        /\ handles[h].state = "closed"
        /\ O_APPEND \in handles[h].flags
        /\ handles[h].written = AppendLen)
    => /\ Len(inodes[2].data) = Len(content0) + 2 * AppendLen
       /\ SubSeq(inodes[2].data, 1, Len(content0)) = content0
       /\ \A h \in DOMAIN handles :
              Occurs(Tail_n(handles[h].data, AppendLen), inodes[2].data)

\* C2 as claimed: open with O_CREAT on a missing final component creates the
\* file before it returns: lookup finds it and the handle holds its inode.
C2_CreatedAtOpen ==
    [][\A h \in DOMAIN handles, p \in RelPaths :
          OpenedMissing(h, p)
          => /\ handles'[h].ino # 0
             /\ open_stats(p)'.val.ino = handles'[h].ino]_vars

\* C2 as amended: open with O_CREAT on a missing final component leaves the
\* store unchanged and returns a handle with inode 0 (pending creation), an
\* empty buffer and the dirty bit set, so lookup still finds nothing right
\* after the open; a directory entry is only ever created by the
\* get_or_create_ino of a later fsync, close or fstat on a handle with inode 0.
C2_CreationDeferred ==
    [][/\ \A h \in DOMAIN handles, p \in RelPaths :
             OpenedMissing(h, p)
             => /\ handles'[h].ino = 0
                /\ handles'[h].data = <<>>
                /\ handles'[h].dirty
                /\ inodes' = inodes /\ dirents' = dirents
                /\ open_stats(p)'.val.ino = 0
       /\ dirents' # dirents =>
             \E h \in DOMAIN handles, p \in RelPaths :
                /\ handles[h].state = "open" /\ handles[h].ino = 0
                /\ handles[h].path = p
                /\ handles' = handles
                /\ open_stats(p).val.ino = 0
                /\ open_stats(p)'.val.ino # 0]_vars

\* A handle pending creation: opened with O_CREAT on "g", which does not exist.
C2_Witness ==
    \E h \in DOMAIN handles :
        /\ handles[h].state = "open" /\ O_CREAT \in handles[h].flags
        /\ handles[h].ino = 0 /\ handles[h].dirty
        /\ fs_lookup(ROOT_INO, <<"g">>).ino = 0

\* C3: open with O_CREAT | O_EXCL on an existing target returns no handle.
C3_ExclFailsOnExisting ==
    [][\A h \in DOMAIN handles :
          (Opened(h) /\ O_CREAT \in handles'[h].flags /\ O_EXCL \in handles'[h].flags)
          => open_stats(handles'[h].path).val.ino = 0]_vars

\* C4: whenever the shared handle is not dirty and no flush is in progress,
\* the stored content equals the handle's buffer.
C4_CleanHandleIsStored ==
    \A h \in DOMAIN handles :
        (/\ handles[h].state = "open" /\ handles[h].kind = "file"
         /\ handles[h].ino # 0 /\ ~handles[h].dirty /\ Quiet(h))
        => inodes[handles[h].ino].data = handles[h].data

\* C5: during a flush the stored file is either its pre-flush content or
\* exactly the flushed buffer, also between pwrite and truncate (where a
\* failing truncate leaves it).
C5_FlushAtomic ==
    \A t \in DOMAIN calls :
        calls[t].pc = "truncate" =>
            inodes[calls[t].ino].data \in {calls[t].before, calls[t].data}

\* -------------------------------------------------------------- OverlayFS
\* The union of a read-only base (HostFS) and the mutable delta (AgentFS).
\* A directory is identified by its path, a sequence of names, in both
\* layers; the delta holds dirents (parent, name) of kind file, dir or
\* whiteout, and the set of directories marked opaque.

OvlRoot == <<>>
OvlPaths == {<<"d">>, <<"x">>, <<"d", "x">>}

\* The order in which a layer lists the names of a directory.
NameOrder == <<"d", "x">>

ParentOf(p) == SubSeq(p, 1, Len(p) - 1)
NameOf(p) == p[Len(p)]

NoEntry == [kind |-> "none", data |-> <<>>, mode |-> 0]
BaseFile == [kind |-> "file", data |-> <<1, 1>>, mode |-> 0]
BaseDir == [kind |-> "dir", data |-> <<>>, mode |-> 0]

\* The base trees: every path absent, a file or a directory; children only
\* in directories, directories only where OvlPaths has names below them.
BaseTrees ==
    {b \in [OvlPaths -> {NoEntry, BaseFile, BaseDir}] :
        \A q \in OvlPaths :
            /\ (Len(q) > 1 /\ b[q].kind # "none") => b[ParentOf(q)].kind = "dir"
            /\ b[q].kind = "dir" => \E r \in OvlPaths : ParentOf(r) = q}

NotFound == [found |-> FALSE, layer |-> "none", entry |-> NoEntry]
Found(layer, e) == [found |-> TRUE, layer |-> layer, entry |-> e]

\* HostFS::lookup
base_lookup(parent, name) ==
    IF /\ Append(parent, name) \in OvlPaths
       /\ (parent = OvlRoot \/ base[parent].kind = "dir")
    THEN base[Append(parent, name)]
    ELSE NoEntry

\* The delta's dirents of (parent, name)
DeltaAt(d, parent, name) == {e \in d : e.parent = parent /\ e.name = name}

Attrs(e) == [kind |-> e.kind, data |-> e.data, mode |-> e.mode]

Dirent(parent, name, e) ==
    [parent |-> parent, name |-> name, kind |-> e.kind, data |-> e.data, mode |-> e.mode]

Whiteout(parent, name) ==
    [parent |-> parent, name |-> name, kind |-> "whiteout", data |-> <<>>, mode |-> 0]

\* A lookup that asks the base before the whiteout is considered.
overlay_lookup_base_first(parent, name) ==
    LET es == DeltaAt(delta, parent, name)
    IN IF \E e \in es : e.kind # "whiteout"
       THEN Found("delta", Attrs(CHOOSE e \in es : e.kind # "whiteout"))
       ELSE IF parent \notin opaque /\ base_lookup(parent, name).kind # "none"
            THEN Found("base", base_lookup(parent, name))
            ELSE NotFound

\* OverlayFS::lookup: whiteout, delta entry, opaque parent, base
overlay_lookup(parent, name) ==
    LET es == DeltaAt(delta, parent, name)
    IN IF \E e \in es : e.kind = "whiteout" THEN NotFound
       ELSE IF es # {} THEN Found("delta", Attrs(CHOOSE e \in es : TRUE))
       ELSE IF parent \in opaque THEN NotFound
       ELSE IF base_lookup(parent, name).kind # "none"
            THEN Found("base", base_lookup(parent, name))
            ELSE NotFound

\* The walk from the root: every component is found, every component but the
\* last is a directory
overlay_stat(path) ==
    IF path = OvlRoot THEN Found("delta", BaseDir)
    ELSE IF \A i \in 1..(Len(path) - 1) :
                LET r == overlay_lookup(SubSeq(path, 1, i - 1), path[i])
                IN r.found /\ r.entry.kind = "dir"
         THEN overlay_lookup(ParentOf(path), NameOf(path))
         ELSE NotFound

DirResolves(dir) == overlay_stat(dir).found /\ overlay_stat(dir).entry.kind = "dir"

\* OverlayFS::readdir: the delta's entries, then the base's entries that no
\* whiteout and no delta entry shadows; none of the base's when opaque
overlay_readdir(dir) ==
    LET inDelta(n) == \E e \in DeltaAt(delta, dir, n) : e.kind # "whiteout"
        inBase(n) == /\ dir \notin opaque
                     /\ base_lookup(dir, n).kind # "none"
                     /\ DeltaAt(delta, dir, n) = {}
    IN SelectSeq(NameOrder, inDelta) \o SelectSeq(NameOrder, inBase)

\* The name is visible through the base layer when the delta says nothing.
BaseVisible(path) ==
    /\ ParentOf(path) \notin opaque
    /\ base_lookup(ParentOf(path), NameOf(path)).kind # "none"

\* The shallow copy-up of a directory: the delta gets a dirent for every
\* ancestor it lacks, with the base's attributes
RECURSIVE EnsureDir(_, _)
EnsureDir(d, dir) ==
    IF dir = OvlRoot \/ DeltaAt(d, ParentOf(dir), NameOf(dir)) # {}
    THEN d
    ELSE EnsureDir(d, ParentOf(dir)) \cup {Dirent(ParentOf(dir), NameOf(dir), base[dir])}

Without(d, path) == d \ DeltaAt(d, ParentOf(path), NameOf(path))

\* Removing a name and recording no whiteout.
HideNoWhiteout(d, path) == Without(EnsureDir(d, ParentOf(path)), path)

\* The delta after a name is removed: its dirent goes, and a whiteout is
\* recorded when the base would show the name
Hide(d, path) ==
    LET d1 == Without(EnsureDir(d, ParentOf(path)), path)
    IN IF BaseVisible(path) THEN d1 \cup {Whiteout(ParentOf(path), NameOf(path))} ELSE d1

\* A copy-up that creates the delta inode and copies no content.
copy_up_entry_empty(path) == [base[path] EXCEPT !.data = <<>>]

\* The delta entry a copy-up creates: the base's attributes and content
copy_up_entry(path) == base[path]

\* Copy-up of a file that only the base holds
copy_up(d, path) ==
    IF overlay_stat(path).layer = "base"
    THEN EnsureDir(d, ParentOf(path))
            \cup {Dirent(ParentOf(path), NameOf(path), copy_up_entry(path))}
    ELSE d

\* A mkdir that never marks the new directory opaque.
mkdir_opaque_never(path) == FALSE

\* mkdir marks the directory opaque when it replaces a whiteout: a directory
\* recreated after deletion
mkdir_opaque(path) ==
    \E e \in DeltaAt(delta, ParentOf(path), NameOf(path)) : e.kind = "whiteout"

Fail(e) == [res |-> e, delta |-> delta, opaque |-> opaque]
Done(d, o) == [res |-> "Ok", delta |-> d, opaque |-> o]

\* OverlayFS::create_file (kind "file") and mkdir (kind "dir")
overlay_create(path, kind) ==
    IF ~DirResolves(ParentOf(path)) THEN Fail("NotFound")
    ELSE IF overlay_stat(path).found THEN Fail("AlreadyExists")
    ELSE Done(Without(EnsureDir(delta, ParentOf(path)), path)
                 \cup {Dirent(ParentOf(path), NameOf(path),
                              [kind |-> kind, data |-> <<>>, mode |-> 0])},
              IF kind = "dir" /\ mkdir_opaque(path) THEN opaque \cup {path} ELSE opaque)

\* OverlayFS::unlink
overlay_unlink(path) ==
    IF ~overlay_stat(path).found THEN Fail("NotFound")
    ELSE IF overlay_stat(path).entry.kind = "dir" THEN Fail("IsDirectory")
    ELSE Done(Hide(delta, path), opaque)

\* OverlayFS::rmdir: the opaque marker and the whiteouts inside the directory
\* go with it. The emptiness test is the merged listing (POSIX, merged = TRUE)
\* or the delta's own entries (merged = FALSE: the base's children of a removed
\* directory are hidden by its whiteout, as in the opaque-directory scenario).
overlay_rmdir(path, merged) ==
    IF ~overlay_stat(path).found THEN Fail("NotFound")
    ELSE IF overlay_stat(path).entry.kind # "dir" THEN Fail("NotDirectory")
    ELSE IF IF merged THEN overlay_readdir(path) # <<>>
            ELSE \E e \in delta : e.parent = path /\ e.kind # "whiteout"
         THEN Fail("NotEmpty")
    ELSE Done({e \in Hide(delta, path) : e.parent # path}, opaque \ {path})

\* The delta after buf is written at offset 0 of the file at path
WithWrite(d, path, buf) ==
    {IF e.parent = ParentOf(path) /\ e.name = NameOf(path)
     THEN [e EXCEPT !.data = fs_pwrite(@, 0, buf)] ELSE e : e \in d}

\* The delta after the mode of the entry at path is set
WithMode(d, path, mode) ==
    {IF e.parent = ParentOf(path) /\ e.name = NameOf(path)
     THEN [e EXCEPT !.mode = mode] ELSE e : e \in d}

\* pwrite through the overlay: copy-up on the first write, then the write
overlay_write(path, buf) ==
    IF ~overlay_stat(path).found THEN Fail("NotFound")
    ELSE IF overlay_stat(path).entry.kind = "dir" THEN Fail("IsDirectory")
    ELSE Done(WithWrite(copy_up(delta, path), path, buf), opaque)

\* OverlayFS::setattr (mode): copy-up, then the change
overlay_setattr(path, mode) ==
    IF ~overlay_stat(path).found THEN Fail("NotFound")
    ELSE LET up == IF overlay_stat(path).entry.kind = "dir"
                   THEN EnsureDir(delta, path)
                   ELSE copy_up(delta, path)
         IN Done(WithMode(up, path, mode), opaque)

\* OverlayFS::rename of a file: copy-up of the source, the rename inside the
\* delta, and a whiteout on the source's base name
overlay_rename(src, dst) ==
    IF ~overlay_stat(src).found \/ ~DirResolves(ParentOf(dst)) THEN Fail("NotFound")
    ELSE IF overlay_stat(dst).found /\ overlay_stat(dst).entry.kind = "dir"
         THEN Fail("IsDirectory")
    ELSE IF src = dst THEN Done(delta, opaque)
    ELSE LET up == copy_up(delta, src)
             e == CHOOSE x \in DeltaAt(up, ParentOf(src), NameOf(src)) : TRUE
             hidden == Hide(up, src)
         IN Done(Without(EnsureDir(hidden, ParentOf(dst)), dst)
                    \cup {Dirent(ParentOf(dst), NameOf(dst), Attrs(e))},
                 opaque)

\* An overlay operation with its outcome r; the base is never written. ovlOp
\* keeps the operation that succeeded, or the error of the one that failed.
OvlApply(op, path, r) ==
    /\ delta' = r.delta
    /\ opaque' = r.opaque
    /\ ovlOp' = IF r.res = "Ok"
                THEN [op |-> op, path |-> path, res |-> "Ok"]
                ELSE [op |-> "none", path |-> <<>>, res |-> r.res]
    /\ UNCHANGED <<base, pathVars, vfsVars, sideVars>>

OvlCreate(path) == OvlApply("create", path, overlay_create(path, "file"))
OvlMkdir(path) == OvlApply("mkdir", path, overlay_create(path, "dir"))
OvlUnlink(path) == OvlApply("unlink", path, overlay_unlink(path))
OvlRmdir(path, merged) == OvlApply("rmdir", path, overlay_rmdir(path, merged))
OvlWrite(path, buf) == OvlApply("write", path, overlay_write(path, buf))
OvlSetattr(path, mode) == OvlApply("setattr", path, overlay_setattr(path, mode))
OvlRename(src, dst) ==
    /\ overlay_stat(src).entry.kind # "dir"
    /\ OvlApply("rename", src, overlay_rename(src, dst))

OvlInit ==
    /\ base \in BaseTrees
    /\ delta = {}
    /\ opaque = {}
    /\ ovlOp = [op |-> "none", path |-> <<>>, res |-> "Ok"]
    /\ pathArg = <<>>
    /\ pathRes = [op |-> "none"]
    /\ VfsIdle
    /\ SideIdle

OvlNext ==
    \/ \E path \in OvlPaths : OvlCreate(path)
    \/ \E path \in OvlPaths : OvlMkdir(path)
    \/ \E path \in OvlPaths : OvlUnlink(path)
    \/ \E path \in OvlPaths, merged \in BOOLEAN : OvlRmdir(path, merged)
    \/ \E path \in OvlPaths, buf \in Bufs : OvlWrite(path, buf)
    \/ \E path \in OvlPaths : OvlSetattr(path, 1)
    \/ \E src \in OvlPaths, dst \in OvlPaths : OvlRename(src, dst)

SpecOverlay == OvlInit /\ [][OvlNext]_vars

\* ------------------------------------------------------- overlay claims
OvlDirs == {OvlRoot} \cup {ParentOf(q) : q \in OvlPaths}
OvlSubdirs == {ParentOf(q) : q \in {r \in OvlPaths : Len(r) > 1}}
ChildNames(dir) == {NameOf(q) : q \in {r \in OvlPaths : ParentOf(r) = dir}}
Whited(d, path) == \E e \in DeltaAt(d, ParentOf(path), NameOf(path)) : e.kind = "whiteout"
InListing(n, listing) == \E i \in 1..Len(listing) : listing[i] = n
Did(op, path) == [op |-> op, path |-> path, res |-> "Ok"]

\* C7: a lookup of (parent, name) is NotFound under a whiteout (whatever the
\* base holds), else the delta's entry when the delta has one, else NotFound
\* when the parent is opaque, else the base's result; the delta never holds
\* more than one dirent for a name, so the four cases cannot disagree.
C7_LookupOrder ==
    \A dir \in OvlDirs : \A n \in ChildNames(dir) :
        LET es == DeltaAt(delta, dir, n)
            r == overlay_lookup(dir, n)
            b == base_lookup(dir, n)
        IN /\ Cardinality(es) <= 1
           /\ (\E e \in es : e.kind = "whiteout") => ~r.found
           /\ (\E e \in es : e.kind # "whiteout") =>
                 /\ r.found /\ r.layer = "delta"
                 /\ \A e \in es : r.entry = Attrs(e)
           /\ (es = {} /\ dir \in opaque) => ~r.found
           /\ (es = {} /\ dir \notin opaque) =>
                 IF b.kind = "none" THEN ~r.found
                 ELSE r.found /\ r.layer = "base" /\ r.entry = b

\* A whiteout hides a base file, a delta entry shadows a base file, and an
\* opaque directory hides a base child, all in one state.
C7_Witness ==
    /\ Whited(delta, <<"x">>) /\ base[<<"x">>].kind = "file"
    /\ <<"d">> \in opaque /\ base[<<"d", "x">>].kind = "file"
    /\ ~overlay_lookup(<<"d">>, "x").found
    /\ ~overlay_lookup(OvlRoot, "x").found

\* C8: unlinking a name that only the base holds records a whiteout in the
\* delta; from then on lookup is NotFound and readdir omits the name while
\* the base file stays; only creating the name in the delta again removes
\* the whiteout.
C8_WhiteoutHides ==
    [][\A q \in OvlPaths :
        /\ (overlay_stat(q).layer = "base" /\ ovlOp' = Did("unlink", q)) =>
              /\ Whited(delta', q)
              /\ ~overlay_stat(q)'.found
              /\ ~InListing(NameOf(q), overlay_readdir(ParentOf(q))')
              /\ base'[q] = base[q] /\ base[q].kind = "file"
        /\ Whited(delta', q) =>
              /\ ~overlay_lookup(ParentOf(q), NameOf(q))'.found
              /\ ~InListing(NameOf(q), overlay_readdir(ParentOf(q))')
        /\ (Whited(delta, q) /\ DirResolves(ParentOf(q))' /\ ~Whited(delta', q)) =>
              /\ (ovlOp'.op = "create" \/ ovlOp'.op = "mkdir" \/ ovlOp'.op = "rename")
              /\ ovlOp'.res = "Ok"
              /\ \E e \in DeltaAt(delta', ParentOf(q), NameOf(q)) : e.kind # "whiteout"
      ]_vars

C8_Witness ==
    /\ ovlOp = Did("unlink", <<"d", "x">>)
    /\ base[<<"d", "x">>].kind = "file"
    /\ Whited(delta, <<"d", "x">>)
    /\ overlay_readdir(<<"d">>) = <<>>

\* The content a read through the overlay returns
overlay_read(path) == overlay_stat(path).entry.data

\* C9: no operation writes the base; right after the copy-up of a file the
\* overlay reads what the base reads; after a write the overlay reads the new
\* content and the base the old.
C9_CopyUpKeepsBase ==
    [][/\ base' = base
       /\ \A q \in OvlPaths :
            (overlay_stat(q).layer = "base" /\ overlay_stat(q).entry.kind = "file") =>
               /\ ovlOp' = Did("setattr", q) =>
                     /\ overlay_stat(q)'.layer = "delta"
                     /\ overlay_read(q)' = base[q].data
               /\ ovlOp' = Did("write", q) =>
                     /\ overlay_stat(q)'.layer = "delta"
                     /\ \E buf \in Bufs :
                          overlay_read(q)' = fs_pwrite(base[q].data, 0, buf)
                     /\ overlay_read(q)' # base[q].data
                     /\ base'[q].data = base[q].data
      ]_vars

C9_Witness ==
    /\ ovlOp = Did("write", <<"d", "x">>)
    /\ base[<<"d", "x">>] = BaseFile
    /\ overlay_stat(<<"d", "x">>).layer = "delta"
    /\ overlay_read(<<"d", "x">>) = <<2, 1>>

\* C10: a directory created over the whiteout of a removed base directory is
\* opaque: its listing starts empty, no lookup inside it reaches the base, and
\* it stays opaque as long as it exists.
C10_RecreatedDirOpaque ==
    [][\A dir \in OvlSubdirs :
        /\ (Whited(delta, dir) /\ base[dir].kind = "dir" /\ ovlOp' = Did("mkdir", dir)) =>
              /\ dir \in opaque'
              /\ overlay_readdir(dir)' = <<>>
              /\ \A n \in ChildNames(dir) : ~overlay_lookup(dir, n)'.found
        /\ dir \in opaque' =>
              \A n \in ChildNames(dir) :
                  overlay_lookup(dir, n)'.found => overlay_lookup(dir, n)'.layer = "delta"
        /\ (dir \in opaque /\ dir \notin opaque') => ovlOp' = Did("rmdir", dir)
      ]_vars

C10_Witness ==
    /\ ovlOp = Did("mkdir", <<"d">>)
    /\ <<"d">> \in opaque
    /\ base[<<"d">>].kind = "dir" /\ base[<<"d", "x">>].kind = "file"
    /\ overlay_readdir(<<"d">>) = <<>>

\* ------------------------------------------- SqliteFileOps: read and seek

\* A read that copies buf.len() bytes whatever is left of the content.
read_uncapped(hd, k) ==
    LET start == hd.offset
    IN IF start >= Len(hd.data)
       THEN [n |-> 0, bytes |-> <<>>, offset |-> hd.offset]
       ELSE [n |-> k, bytes |-> SubSeq(hd.data, start + 1, Min(start + k, Len(hd.data))),
             offset |-> hd.offset + k]

\* SqliteFileOps::read into a buffer of k bytes: the count returned, the bytes
\* copied and the offset after the call
read(hd, k) ==
    LET start == hd.offset
    IN IF start >= Len(hd.data)
       THEN [n |-> 0, bytes |-> <<>>, offset |-> hd.offset]
       ELSE LET end == Min(start + k, Len(hd.data))
            IN [n |-> end - start, bytes |-> SubSeq(hd.data, start + 1, end),
                offset |-> hd.offset + (end - start)]

Read(h, k) ==
    /\ handles[h].state = "open"
    /\ handles[h].kind = "file"
    /\ handles' = [handles EXCEPT ![h].offset = read(handles[h], k).offset]
    /\ ret' = [op |-> "read", h |-> h, k |-> k, n |-> read(handles[h], k).n,
               bytes |-> read(handles[h], k).bytes]
    /\ UNCHANGED <<inodes, dirents, calls, content0, otherVars>>

SEEK_SET == "SEEK_SET"
SEEK_CUR == "SEEK_CUR"
SEEK_END == "SEEK_END"
Whences == {SEEK_CUR, SEEK_END, SEEK_SET}

\* SqliteFileOps::seek: the new offset, or the error of a negative one
seek(hd, offset, whence) ==
    LET new_offset == CASE whence = SEEK_SET -> offset
                        [] whence = SEEK_CUR -> hd.offset + offset
                        [] whence = SEEK_END -> Len(hd.data) + offset
    IN IF new_offset < 0 THEN Err("Other") ELSE Ok(new_offset)

Seek(h, offset, whence) ==
    /\ handles[h].state = "open"
    /\ handles[h].kind = "file"
    /\ LET r == seek(handles[h], offset, whence)
       IN /\ r.ok => r.val <= MaxSeek
          /\ handles' = [handles EXCEPT ![h].offset = IF r.ok THEN r.val ELSE @]
          /\ ret' = [op |-> "seek", h |-> h, r |-> r]
    /\ UNCHANGED <<inodes, dirents, calls, content0, otherVars>>

\* SpecRW: one handle on the existing file "f", opened plainly or with
\* O_APPEND, and any sequence of seek, read and write on it.
SeekOffsets == -1..MaxSeek
ReadSizes == 0..MaxRead
RWFlags == {{}, {O_APPEND}}
RWBufs == WriteBufs(MaxRW)
RWInit == VfsInit(InitContents(MaxInitLen), 1, 1)
RWNext ==
    \/ \E h \in DOMAIN handles, flags \in RWFlags : Open(h, PathF, flags)
    \/ \E h \in DOMAIN handles, off \in SeekOffsets, whence \in Whences : Seek(h, off, whence)
    \/ \E h \in DOMAIN handles, k \in ReadSizes : Read(h, k)
    \/ \E h \in DOMAIN handles, buf \in RWBufs :
          handles[h].written + Len(buf) <= MaxRW /\ Write(h, buf)
SpecRW == RWInit /\ [][RWNext]_vars

\* Handle h was written to in this step.
Wrote(h) == handles'[h].written > handles[h].written

\* This step is a read on the open handle h.
ReadStep(h) ==
    /\ handles[h].state = "open" /\ ~Wrote(h)
    /\ ret'.op = "read" /\ ret'.h = h

\* C18: a read with offset o, content length L and buffer size k returns
\* min(k, max(0, L - o)) bytes, the content from o on, and advances the offset
\* by the count returned; at or past EOF it returns nothing and changes nothing.
C18_ReadShortAtEof ==
    [][\A h \in DOMAIN handles :
          ReadStep(h) =>
              LET o == handles[h].offset
                  L == Len(handles[h].data)
                  n == Min(ret'.k, Max(0, L - o))
              IN /\ ret'.n = n
                 /\ Len(ret'.bytes) = n
                 /\ \A i \in 1..n : ret'.bytes[i] = handles[h].data[o + i]
                 /\ handles'[h].offset = o + n
                 /\ handles'[h].data = handles[h].data
                 /\ (o >= L => ret'.n = 0 /\ handles'[h] = handles[h])]_vars

\* A read that crossed EOF: fewer bytes than asked, the offset at the end.
C18_Witness ==
    /\ ret.op = "read" /\ ret.k = 2 /\ ret.n = 1
    /\ handles[1].offset = Len(handles[1].data)

\* C15: on a handle opened with O_APPEND a write of n bytes lands at the end
\* of the content wherever the offset is: the length grows by n, the earlier
\* content is unchanged, the new bytes are the buffer and the offset ends at
\* the new end.
C15_AppendAtEnd ==
    [][\A h \in DOMAIN handles :
          (Wrote(h) /\ O_APPEND \in handles[h].flags) =>
              LET n == handles'[h].written - handles[h].written
                  L == Len(handles[h].data)
              IN /\ Len(handles'[h].data) = L + n
                 /\ SubSeq(handles'[h].data, 1, L) = handles[h].data
                 /\ \A i \in (L + 1)..(L + n) : handles'[h].data[i] = 2
                 /\ handles'[h].offset = L + n]_vars

\* An append after a seek back to the start of a non-empty content.
C15_Witness ==
    /\ O_APPEND \in handles[1].flags
    /\ handles[1].written = 1
    /\ content0 = <<1, 1>>
    /\ handles[1].data = <<1, 1, 2>>
    /\ ret.op = "seek" /\ ret.r = Ok(0)

\* C20: a write of n bytes at an offset p past the end L of the content
\* leaves a content of length p + n whose bytes [0, L) are unchanged, whose
\* bytes [L, p) are zero and whose bytes [p, p + n) are the buffer.
C20_ZeroFill ==
    [][\A h \in DOMAIN handles :
          (/\ Wrote(h) /\ O_APPEND \notin handles[h].flags
           /\ handles[h].offset > Len(handles[h].data)) =>
              LET n == handles'[h].written - handles[h].written
                  L == Len(handles[h].data)
                  p == handles[h].offset
              IN /\ Len(handles'[h].data) = p + n
                 /\ SubSeq(handles'[h].data, 1, L) = handles[h].data
                 /\ \A i \in (L + 1)..p : handles'[h].data[i] = 0
                 /\ \A i \in (p + 1)..(p + n) : handles'[h].data[i] = 2]_vars

\* A write after a seek two bytes past the end of a one-byte content.
C20_Witness ==
    /\ content0 = <<1>>
    /\ handles[1].data = <<1, 0, 0, 2>>
    /\ handles[1].offset = 4

\* C14: open of an existing regular file with O_TRUNC returns a handle with an
\* empty buffer and the dirty bit set, and the close of that handle, with no
\* write in between, leaves the stored file with size 0.
C14_TruncPersists ==
    [][\A h \in DOMAIN handles :
          /\ (/\ Opened(h) /\ O_TRUNC \in handles'[h].flags
              /\ handles'[h].kind = "file" /\ handles'[h].ino # 0) =>
                 /\ handles'[h].data = <<>>
                 /\ handles'[h].dirty
          /\ (/\ handles[h].state = "open" /\ handles'[h].state = "closed"
              /\ handles[h].kind = "file" /\ handles[h].ino # 0
              /\ O_TRUNC \in handles[h].flags
              /\ handles[h].dirty /\ handles[h].written = 0) =>
                 /\ inodes'[handles[h].ino].data = <<>>
                 /\ fs_getattr(handles[h].ino)'.size = 0]_vars

\* A two-byte file closed to nothing by a handle that was never written to.
C14_Witness ==
    \E h \in DOMAIN handles :
        /\ handles[h].state = "closed" /\ O_TRUNC \in handles[h].flags
        /\ handles[h].written = 0 /\ handles[h].ino = 2
        /\ content0 = <<1, 1>>
        /\ inodes[2].data = <<>>

\* SpecRoundTrip: a file is written through one handle and closed, then
\* opened again and read; each handle is used by one call at a time, the
\* second is opened after the close of the first, and only the reopened
\* handle is read from and only the first written to.
RTFlags == {{}, {O_CREAT}}
RTOffsets == 0..MaxSeek
RTInit == VfsInit(InitContents(MaxInitLen), 2, 1)
RTNext ==
    \/ \E h \in DOMAIN handles, path \in VfsPaths, flags \in RTFlags :
          /\ \A g \in DOMAIN handles : g < h => handles[g].state = "closed"
          /\ Open(h, path, flags)
    \/ \E h \in DOMAIN handles, off \in RTOffsets : Quiet(h) /\ Seek(h, off, SEEK_SET)
    \/ \E h \in DOMAIN handles, k \in ReadSizes :
          /\ Quiet(h)
          /\ \E g \in DOMAIN handles : g < h
          /\ Read(h, k)
    \/ \E h \in DOMAIN handles, buf \in Bufs :
          /\ Quiet(h)
          /\ \A g \in DOMAIN handles : g >= h
          /\ handles[h].written + Len(buf) <= MaxWritten
          /\ Write(h, buf)
    \/ \E t \in DOMAIN calls, h \in DOMAIN handles : FsyncStart(t, h, "close")
    \/ \E t \in DOMAIN calls : FsyncClone(t)
    \/ \E t \in DOMAIN calls : FsyncGetIno(t)
    \/ \E t \in DOMAIN calls, ok \in BOOLEAN : FsyncPwrite(t, ok)
    \/ \E t \in DOMAIN calls, ok \in BOOLEAN : FsyncTruncate(t, ok)
    \/ \E t \in DOMAIN calls : FsyncClear(t)
SpecRoundTrip == RTInit /\ [][RTNext]_vars

\* C19: once the first handle is closed, a fresh open of the same path without
\* O_TRUNC holds exactly the closed handle's buffer, the stored size is that
\* buffer's length, and a read on the new handle returns the bytes the closed
\* handle held at the offset read from.
C19_RoundTrip ==
    (/\ handles[1].state = "closed" /\ handles[1].kind = "file"
     /\ handles[2].state = "open" /\ handles[2].path = handles[1].path
     /\ O_TRUNC \notin handles[2].flags /\ handles[2].written = 0)
    => /\ handles[2].data = handles[1].data
       /\ fs_getattr(handles[2].ino).size = Len(handles[1].data)
       /\ (ret.op = "read" /\ ret.h = 2) =>
             ret.bytes = SubSeq(handles[1].data,
                                handles[2].offset - ret.n + 1, handles[2].offset)

\* One byte written two bytes into a one-byte file, read back after close
\* and reopen.
C19_Witness ==
    /\ content0 = <<1>>
    /\ handles[1].state = "closed" /\ handles[1].data = <<1, 0, 2>>
    /\ handles[2].state = "open" /\ handles[2].path = handles[1].path
    /\ ret.op = "read" /\ ret.h = 2 /\ ret.bytes = <<2>>
    /\ handles[2].offset = 3

\* ---------------------------------------------- unlink of an open file
\* FileSystem::unlink, called by another client of the store: the dirent is
\* removed and the inode is retained until release(ino) is called. The adapter
\* has no call of release: close is fsync and nothing else.

\* The file inodes no dirent names: unlinked and not released
Orphans ==
    {i \in DOMAIN inodes : inodes[i].kind = "file" /\ \A d \in dirents : d.child # i}

fs_unlink(parent, name) == {d \in dirents : ~(d.parent = parent /\ d.name = name)}

\* The file at the path of the open handle h is unlinked
Unlink(h) ==
    /\ handles[h].state = "open"
    /\ handles[h].kind = "file"
    /\ Cardinality(Orphans) < MaxUnlinks
    /\ LET sp == split_path(handles[h].path)
       IN /\ sp.ok
          /\ fs_lookup(ROOT_INO, sp.val.name).kind = "file"
          /\ handles[h].ino \in {0, fs_lookup(ROOT_INO, sp.val.name).ino}
          /\ dirents' = fs_unlink(ROOT_INO, sp.val.name)
    /\ UNCHANGED <<inodes, handles, calls, content0, nonVfsVars>>

\* SpecUnlink: one handle on "f" or on "g" (created through the handle), the
\* file unlinked while the handle is open, and the handle read, written,
\* flushed and closed.
UnlinkFlags == {{}, {O_CREAT}}
UnlinkInit == VfsInit(InitContents(MaxInitLen), 1, 1)
UnlinkNext ==
    \/ \E h \in DOMAIN handles, path \in VfsPaths, flags \in UnlinkFlags : Open(h, path, flags)
    \/ \E h \in DOMAIN handles, buf \in Bufs :
          handles[h].written + Len(buf) <= MaxWritten /\ Write(h, buf)
    \/ \E h \in DOMAIN handles, k \in ReadSizes : Read(h, k)
    \/ \E h \in DOMAIN handles : Fstat(h)
    \/ \E h \in DOMAIN handles : Unlink(h)
    \/ \E t \in DOMAIN calls, h \in DOMAIN handles : FsyncStart(t, h, "fsync")
    \/ \E t \in DOMAIN calls, h \in DOMAIN handles : FsyncStart(t, h, "close")
    \/ \E t \in DOMAIN calls : FsyncClone(t)
    \/ \E t \in DOMAIN calls : FsyncGetIno(t)
    \/ \E t \in DOMAIN calls, ok \in BOOLEAN : FsyncPwrite(t, ok)
    \/ \E t \in DOMAIN calls, ok \in BOOLEAN : FsyncTruncate(t, ok)
    \/ \E t \in DOMAIN calls : FsyncClear(t)
SpecUnlink == UnlinkInit /\ [][UnlinkNext]_vars

\* The relative paths and names of "f" and "g"
RelNames == {split_path(p).val.name : p \in RelPaths}

\* C11: while the file of an open handle is unlinked, read on the handle still
\* returns the buffered data; the close of the handle returns Ok, leaves the
\* name without a dirent (it is not created again) and leaves no unlinked
\* inode behind (the inode is destroyed at the last close).
C11_UnlinkedGoneAtClose ==
    [][\A h \in DOMAIN handles, name \in RelNames :
          (Orphans # {} /\ handles[h].state = "open"
           /\ split_path(handles[h].path).val.name = name) =>
             /\ ReadStep(h) =>
                   ret'.bytes = SubSeq(handles[h].data, handles[h].offset + 1,
                                       Min(handles[h].offset + ret'.k, Len(handles[h].data)))
             /\ handles'[h].state # "open" =>
                   /\ handles'[h].state = "closed"
                   /\ fs_lookup(ROOT_INO, name)' = NoStats
                   /\ Orphans' = {}]_vars

\* ------------------------------------------------ symbolic links: SpecLinks
\* stat, lstat, readlink and symlink over a store that holds, in the root:
\* file "f", directory "d" with file "d/x", and a chain of symbolic links
\* "l" -> "ll" -> "lll" -> ... -> "f"; the links "s" and "t" are created by
\* symlink. A symlink inode holds its target as its data. Targets are
\* relative to the directory of the link.

\* The resolution depth cap the specification suggests.
SymlinkCap == 40

\* The links of the chain: one more than the cap.
ChainLen == SymlinkCap + 1

Digits == <<"0", "1", "2", "3", "4", "5", "6", "7", "8", "9">>

\* The name of the i-th link of the chain: "l" and the two digits of i.
LinkName(i) == <<"l", Digits[(i \div 10) + 1], Digits[(i % 10) + 1]>>

\* The inode of the i-th link of the chain.
ChainIno(i) == 4 + i

LinksStore ==
    <<[kind |-> "dir", data |-> <<>>],
      [kind |-> "file", data |-> <<1>>],
      [kind |-> "dir", data |-> <<>>],
      [kind |-> "file", data |-> <<1, 1>>]>>
    \o [i \in 1..ChainLen |->
          [kind |-> "symlink",
           data |-> IF i = ChainLen THEN <<"f">> ELSE LinkName(i + 1)]]

LinksDirents ==
    {[parent |-> 1, name |-> <<"f">>, child |-> 2],
     [parent |-> 1, name |-> <<"d">>, child |-> 3],
     [parent |-> 3, name |-> <<"x">>, child |-> 4]}
    \cup {[parent |-> 1, name |-> LinkName(i), child |-> ChainIno(i)] : i \in 1..ChainLen}

LinksInit ==
    /\ inodes = LinksStore
    /\ dirents = LinksDirents
    /\ handles = <<>>
    /\ calls = <<>>
    /\ content0 = <<>>
    /\ ret = [op |-> "none"]
    /\ pathArg = <<>>
    /\ pathRes = [op |-> "none"]
    /\ OvlIdle
    /\ SideIdle

\* FileSystem::readlink: the target of a symlink inode, None for another
fs_readlink(ino) ==
    IF ino \in DOMAIN inodes /\ inodes[ino].kind = "symlink"
    THEN Ok(inodes[ino].data)
    ELSE Err("NotFound")

\* The libc::stat the adapter fills in from the store's stats and a size
libc_stat(stats, size) ==
    [st_ino |-> stats.ino, kind |-> stats.kind, st_size |-> size,
     st_blksize |-> 4096, st_blocks |-> (size + 4095) \div 4096]

\* SqliteVfs::stat
stat(path) ==
    LET rel == translate_to_relative(path)
    IN IF ~rel.ok THEN rel
       ELSE LET ino == resolve_path(rel.val)
            IN IF ~ino.ok THEN ino
               ELSE IF fs_getattr(ino.val).ino = 0 THEN Err("NotFound")
                    ELSE Ok(libc_stat(fs_getattr(ino.val), fs_getattr(ino.val).size))

\* SqliteVfs::lstat
lstat(path) ==
    LET rel == translate_to_relative(path)
    IN IF ~rel.ok THEN rel
       ELSE LET stats == open_stats(rel.val)
            IN IF ~stats.ok THEN stats
               ELSE IF stats.val.ino = 0 THEN Err("NotFound")
                    ELSE Ok(libc_stat(stats.val, stats.val.size))

\* SqliteVfs::readlink
readlink(path) ==
    LET rel == translate_to_relative(path)
    IN IF ~rel.ok THEN rel
       ELSE LET ino == resolve_path(rel.val)
            IN IF ~ino.ok THEN ino ELSE fs_readlink(ino.val)

Stat(path) ==
    /\ ret' = [op |-> "stat", path |-> path, r |-> stat(path)]
    /\ UNCHANGED <<inodes, dirents, handles, calls, content0, otherVars>>

Lstat(path) ==
    /\ ret' = [op |-> "lstat", path |-> path, r |-> lstat(path)]
    /\ UNCHANGED <<inodes, dirents, handles, calls, content0, otherVars>>

Readlink(path) ==
    /\ ret' = [op |-> "readlink", path |-> path, r |-> readlink(path)]
    /\ UNCHANGED <<inodes, dirents, handles, calls, content0, otherVars>>

\* SqliteVfs::symlink: fs.symlink in the resolved parent; the store refuses a
\* name that exists
symlink(target, linkpath) ==
    LET rel == translate_to_relative(linkpath)
    IN IF ~rel.ok THEN rel
       ELSE LET sp == split_path(rel.val)
            IN IF ~sp.ok THEN sp
               ELSE LET parent == resolve_path(sp.val.parent)
                    IN IF ~parent.ok THEN parent
                       ELSE IF fs_lookup(parent.val, sp.val.name).ino # 0
                            THEN Err("AlreadyExists")
                            ELSE Ok([parent |-> parent.val, name |-> sp.val.name])

Symlink(target, linkpath) ==
    /\ LET r == symlink(target, linkpath)
       IN /\ ret' = [op |-> "symlink", path |-> linkpath,
                     r |-> IF r.ok THEN Ok(target) ELSE r]
          /\ IF r.ok
             THEN /\ inodes' = Append(inodes, [kind |-> "symlink", data |-> target])
                  /\ dirents' = dirents \cup {[parent |-> r.val.parent, name |-> r.val.name,
                                               child |-> NextIno]}
             ELSE UNCHANGED <<inodes, dirents>>
    /\ UNCHANGED <<handles, calls, content0, otherVars>>

Guest(rel) == MountPoint \o <<"/">> \o rel

\* The targets and the names of the links symlink creates, and the guest
\* paths stat, lstat and readlink are called with.
LinkTargets == {<<"d">>, <<"f">>, <<"s">>, <<"t">>}
NewLinks == {Guest(<<"s">>), Guest(<<"t">>)}
LinkPaths ==
    {Guest(<<"f">>), Guest(<<"d">>), Guest(<<"d", "/", "x">>),
     Guest(<<"s">>), Guest(<<"t">>), Guest(<<"s", "/", "x">>), Guest(<<"t", "/", "x">>),
     Guest(LinkName(1)), Guest(LinkName(2)), Guest(LinkName(ChainLen))}

LinksNext ==
    \/ \E path \in LinkPaths : Stat(path)
    \/ \E path \in LinkPaths : Lstat(path)
    \/ \E path \in LinkPaths : Readlink(path)
    \/ \E target \in LinkTargets, linkpath \in NewLinks : Symlink(target, linkpath)

SpecLinks == LinksInit /\ [][LinksNext]_vars

\* The walk the specification describes: a symbolic link met at a component
\* is replaced by its target, except at the final component of lstat and
\* readlink; more than SymlinkCap replacements end in ELOOP.
RECURSIVE FollowWalk(_, _, _, _)
FollowWalk(cur, comps, followFinal, budget) ==
    IF comps = <<>> THEN Ok(cur)
    ELSE LET stats == fs_lookup(cur, Head(comps))
             rest == Tail(comps)
         IN IF stats.ino = 0 THEN Err("NotFound")
            ELSE IF stats.kind = "symlink" /\ (rest # <<>> \/ followFinal)
                 THEN IF budget = 0 THEN Err("ELOOP")
                      ELSE FollowWalk(cur, Components(inodes[stats.ino].data) \o rest,
                                      followFinal, budget - 1)
                 ELSE FollowWalk(stats.ino, rest, followFinal, budget)

Followed(path, followFinal) ==
    FollowWalk(ROOT_INO, Components(translate_to_relative(path).val), followFinal, SymlinkCap)

\* C12: stat returns the attributes of the inode the walk with links followed
\* ends at; lstat and readlink act on the inode the walk ends at when the
\* final component is not followed; links at intermediate components are
\* followed for all three.
C12_SymlinksFollowed ==
    /\ (ret.op = "stat" /\ Followed(ret.path, TRUE).ok) =>
          ret.r.ok /\ ret.r.val.st_ino = Followed(ret.path, TRUE).val
    /\ (ret.op = "lstat" /\ Followed(ret.path, FALSE).ok) =>
          ret.r.ok /\ ret.r.val.st_ino = Followed(ret.path, FALSE).val
    /\ (ret.op = "readlink" /\ Followed(ret.path, FALSE).ok) =>
          ret.r = fs_readlink(Followed(ret.path, FALSE).val)

\* C13: a resolution that would follow more than SymlinkCap (40) links, a
\* chain of 41 or a cycle, returns ELOOP.
C13_ChainEndsInELOOP ==
    /\ (ret.op = "stat" /\ Followed(ret.path, TRUE) = Err("ELOOP")) =>
          ret.r = Err("ELOOP")
    /\ ((ret.op = "lstat" \/ ret.op = "readlink")
        /\ Followed(ret.path, FALSE) = Err("ELOOP")) =>
          ret.r = Err("ELOOP")

\* ------------------------------------------- SqliteDirectoryOps::getdents
\* getdents is a sequence of steps: the cache is tested under its lock, the
\* store is called three times (readdir_plus, getattr, the lookups of the
\* parent walk) with no lock held, the result is stored under the lock, and
\* the cache is drained under the position lock. Calls of several threads on
\* one handle interleave between the steps, and so do changes another client
\* makes in the store.

\* The entries of a set of dirents in storage order: by inode number
RECURSIVE ByChild(_)
ByChild(ds) ==
    IF ds = {} THEN <<>>
    ELSE LET first == CHOOSE d \in ds : \A e \in ds : d.child <= e.child
         IN <<first>> \o ByChild(ds \ {first})

\* FileSystem::readdir_plus: the names in the directory with their stats, as of
\* one transaction; None for an inode that is no directory
fs_readdir_plus(ino) ==
    IF fs_getattr(ino).kind # "dir" THEN Err("NotFound")
    ELSE LET kids == ByChild({d \in dirents : d.parent = ino})
         IN Ok([i \in 1..Len(kids) |->
                  [name |-> kids[i].name, stats |-> fs_getattr(kids[i].child)]])

\* getdents, lines 713-722: the type of an entry
d_type(stats) ==
    IF stats.kind = "dir" THEN "DT_DIR"
    ELSE IF stats.kind = "symlink" THEN "DT_LNK" ELSE "DT_REG"

\* getdents, lines 700-707: a component that lookup does not find is skipped
RECURSIVE ParentWalk(_, _)
ParentWalk(ino, comps) ==
    IF comps = <<>> THEN ino
    ELSE LET stats == fs_lookup(ino, Head(comps))
         IN ParentWalk(IF stats.ino # 0 THEN stats.ino ELSE ino, Tail(comps))

\* getdents, lines 690-708: the inode for "..", from the path recorded at open
parent_ino(path) ==
    IF path = <<"/">> THEN ROOT_INO
    ELSE LET comps == Components(path)
         IN ParentWalk(ROOT_INO, SubSeq(comps, 1, Len(comps) - 1))

\* lines 663-668: needs_populate is read and the lock released
GetdentsStart(t, h) ==
    /\ FreeThread(t)
    /\ handles[h].state = "open"
    /\ handles[h].kind = "dir"
    /\ calls' = [calls EXCEPT ![t] =
                   [IdleCall EXCEPT !.op = "getdents", !.h = h,
                                    !.pc = IF handles[h].entries.some
                                           THEN "drain" ELSE "readdir_plus"]]
    /\ UNCHANGED <<inodes, dirents, handles, content0, nonVfsVars>>

\* lines 670-675: readdir_plus of the handle's inode
GetdentsReaddir(t) ==
    /\ calls[t].pc = "readdir_plus"
    /\ LET h == calls[t].h
           r == fs_readdir_plus(handles[h].ino)
       IN /\ handles' = [handles EXCEPT ![h].nreaddir = @ + 1]
          /\ IF r.ok
             THEN /\ calls' = [calls EXCEPT ![t].pc = "getattr", ![t].data = r.val]
                  /\ UNCHANGED ret
             ELSE /\ calls' = [calls EXCEPT ![t] = IdleCall]
                  /\ ret' = [op |-> "getdents", h |-> h, r |-> r]
    /\ UNCHANGED <<inodes, dirents, content0, otherVars>>

\* lines 681-686: getattr of the handle's inode, for "."
GetdentsGetattr(t) ==
    /\ calls[t].pc = "getattr"
    /\ LET h == calls[t].h
           current_stats == fs_getattr(handles[h].ino)
       IN IF current_stats.ino # 0
          THEN /\ calls' = [calls EXCEPT ![t].pc = "parent", ![t].ino = current_stats.ino]
               /\ UNCHANGED ret
          ELSE /\ calls' = [calls EXCEPT ![t] = IdleCall]
               /\ ret' = [op |-> "getdents", h |-> h, r |-> Err("NotFound")]
    /\ UNCHANGED <<inodes, dirents, handles, content0, otherVars>>

\* lines 688-722: the parent walk, and the result: ".", ".." and the entries
GetdentsParent(t) ==
    /\ calls[t].pc = "parent"
    /\ LET h == calls[t].h
           dir_entries == calls[t].data
       IN calls' = [calls EXCEPT
             ![t].pc = "store",
             ![t].data =
                 <<[ino |-> calls[t].ino, name |-> <<".">>, type |-> "DT_DIR"],
                   [ino |-> parent_ino(handles[h].path), name |-> <<".", ".">>,
                    type |-> "DT_DIR"]>>
                 \o [i \in 1..Len(dir_entries) |->
                       [ino |-> dir_entries[i].stats.ino, name |-> dir_entries[i].name,
                        type |-> d_type(dir_entries[i].stats)]]]
    /\ UNCHANGED <<inodes, dirents, handles, content0, nonVfsVars>>

\* lines 725-726: the result becomes the cache
GetdentsStore(t) ==
    /\ calls[t].pc = "store"
    /\ handles' = [handles EXCEPT ![calls[t].h].entries =
                                      [some |-> TRUE, list |-> calls[t].data]]
    /\ calls' = [calls EXCEPT ![t].pc = "drain", ![t].data = <<>>]
    /\ UNCHANGED <<inodes, dirents, content0, nonVfsVars>>

\* lines 730-742: the entries from the position on, and the position moves
\* to the end of the cache
getdents_drain(hd) ==
    IF hd.position >= Len(hd.entries.list)
    THEN [remaining |-> <<>>, position |-> hd.position]
    ELSE [remaining |-> SubSeq(hd.entries.list, hd.position + 1, Len(hd.entries.list)),
          position |-> Len(hd.entries.list)]

GetdentsDrain(t) ==
    /\ calls[t].pc = "drain"
    /\ LET h == calls[t].h
           r == getdents_drain(handles[h])
       IN /\ handles' = [handles EXCEPT ![h].position = r.position,
                                        ![h].got = @ \o r.remaining]
          /\ ret' = [op |-> "getdents", h |-> h, r |-> Ok(r.remaining)]
    /\ calls' = [calls EXCEPT ![t] = IdleCall]
    /\ UNCHANGED <<inodes, dirents, content0, otherVars>>

\* Another client of the store creates a file in a directory
StoreCreate(dir, name) ==
    /\ fs_getattr(dir).kind = "dir"
    /\ fs_lookup(dir, name).ino = 0
    /\ create_file([parent |-> dir, name |-> name, ino |-> NextIno])
    /\ UNCHANGED <<handles, calls, content0, nonVfsVars>>

\* FileSystem::rename within one directory, by another client of the store
fs_rename(dir, from, to) ==
    {IF d.parent = dir /\ d.name = from THEN [d EXCEPT !.name = to] ELSE d : d \in dirents}

StoreRename(dir, from, to) ==
    /\ fs_lookup(dir, from).ino # 0
    /\ fs_lookup(dir, to).ino = 0
    /\ dirents' = fs_rename(dir, from, to)
    /\ UNCHANGED <<inodes, handles, calls, content0, nonVfsVars>>

\* SpecDir: the store holds the directories d (inode 2) and d/e (inode 3) and
\* the file d/e/a (inode 4). One handle is opened on the mount point or on
\* d/e, two threads call getdents on it, and another client creates d/e/b and
\* renames d to r and back.
DirE == 3
DirStore ==
    <<[kind |-> "dir", data |-> <<>>],
      [kind |-> "dir", data |-> <<>>],
      [kind |-> "dir", data |-> <<>>],
      [kind |-> "file", data |-> <<>>]>>
DirDirents ==
    {[parent |-> 1, name |-> <<"d">>, child |-> 2],
     [parent |-> 2, name |-> <<"e">>, child |-> DirE],
     [parent |-> DirE, name |-> <<"a">>, child |-> 4]}
DirPaths == {MountPoint, Guest(<<"d", "/", "e">>)}
DirFlags == {{}}
DirNewNames == {<<"b">>}
DirRenames == {[from |-> <<"d">>, to |-> <<"r">>], [from |-> <<"r">>, to |-> <<"d">>]}

DirInit ==
    /\ inodes = DirStore
    /\ dirents = DirDirents
    /\ handles = <<NoHandle>>
    /\ calls = <<IdleCall, IdleCall>>
    /\ content0 = <<>>
    /\ ret = [op |-> "none"]
    /\ pathArg = <<>>
    /\ pathRes = [op |-> "none"]
    /\ OvlIdle
    /\ SideIdle

DirNext ==
    \/ \E h \in DOMAIN handles, path \in DirPaths, flags \in DirFlags : Open(h, path, flags)
    \/ \E t \in DOMAIN calls, h \in DOMAIN handles : GetdentsStart(t, h)
    \/ \E t \in DOMAIN calls : GetdentsReaddir(t)
    \/ \E t \in DOMAIN calls : GetdentsGetattr(t)
    \/ \E t \in DOMAIN calls : GetdentsParent(t)
    \/ \E t \in DOMAIN calls : GetdentsStore(t)
    \/ \E t \in DOMAIN calls : GetdentsDrain(t)
    \/ \E name \in DirNewNames : StoreCreate(DirE, name)
    \/ \E rn \in DirRenames : StoreRename(ROOT_INO, rn.from, rn.to)

SpecDir == DirInit /\ [][DirNext]_vars

\* C16: over all getdents calls on a directory handle, readdir_plus is called
\* at most once, also when calls race or the directory changes; the cache is
\* ".", ".." and that snapshot; what the calls returned, concatenated, is a
\* prefix of the cache with no entry twice, so a call after the last entry
\* returns the empty list.
C16_OneSnapshotDrained ==
    \A h \in DOMAIN handles :
        handles[h].kind = "dir" =>
            LET hd == handles[h]
            IN /\ hd.nreaddir <= 1
               /\ hd.entries.some =>
                     /\ hd.entries.list[1].name = <<".">>
                     /\ hd.entries.list[2].name = <<".", ".">>
               /\ Len(hd.got) <= Len(hd.entries.list)
               /\ hd.got = SubSeq(hd.entries.list, 1, Len(hd.got))
               /\ \A i, j \in 1..Len(hd.got) : i # j => hd.got[i].name # hd.got[j].name

\* The directory that holds the name of a directory inode; the root is its
\* own parent.
ParentDir(ino) ==
    IF ino = ROOT_INO THEN ROOT_INO ELSE (CHOOSE d \in dirents : d.child = ino).parent

\* C17: in the cache of a directory handle "." carries the inode of the
\* directory and ".." the inode of the directory's parent (the root for the
\* root), never another ancestor, also after a component of the path recorded
\* at open stopped resolving.
C17_DotDotIsParent ==
    \A h \in DOMAIN handles :
        handles[h].entries.some =>
            /\ handles[h].entries.list[1].ino = handles[h].ino
            /\ handles[h].entries.list[2].ino = fs_getattr(ParentDir(handles[h].ino)).ino

\* ----------------------------------------------------------------- fcntl
\* SqliteFileOps::fcntl and SqliteDirectoryOps::fcntl are the same code: the
\* flags word of the handle is returned, or replaced by the argument; every
\* other command is refused with VfsError::Other.

F_GETFL == "F_GETFL"
F_SETFL == "F_SETFL"
F_GETFD == "F_GETFD"

\* fcntl on the handle hd: the value returned and the flags after the call
fcntl(hd, cmd, arg) ==
    IF cmd = F_GETFL THEN [r |-> [ok |-> TRUE, flags |-> hd.flags], flags |-> hd.flags]
    ELSE IF cmd = F_SETFL THEN [r |-> [ok |-> TRUE, zero |-> 0], flags |-> arg]
    ELSE [r |-> Err("Other"), flags |-> hd.flags]

Fcntl(h, cmd, arg) ==
    /\ handles[h].state = "open"
    /\ handles' = [handles EXCEPT ![h].flags = fcntl(handles[h], cmd, arg).flags]
    /\ ret' = [op |-> "fcntl", h |-> h, cmd |-> cmd, arg |-> arg,
               r |-> fcntl(handles[h], cmd, arg).r]
    /\ UNCHANGED <<inodes, dirents, calls, content0, otherVars>>

\* SpecFcntl: one handle on the mount point (a directory handle) or on "f",
\* written and given fcntl commands.
FcntlPaths == {MountPoint, PathF}
FcntlCmds == {F_GETFD, F_GETFL, F_SETFL}
FcntlInit == VfsInit(InitContents(MaxInitLen), 1, 1)
FcntlNext ==
    \/ \E h \in DOMAIN handles, path \in FcntlPaths, flags \in RWFlags : Open(h, path, flags)
    \/ \E h \in DOMAIN handles, buf \in Bufs :
          handles[h].written + Len(buf) <= MaxWritten /\ Write(h, buf)
    \/ \E h \in DOMAIN handles, cmd \in FcntlCmds, arg \in RWFlags : Fcntl(h, cmd, arg)

SpecFcntl == FcntlInit /\ [][FcntlNext]_vars

\* C21: F_GETFL returns the flags the handle holds (those of open, or of the
\* last F_SETFL) and changes nothing; F_SETFL stores its argument; every
\* other command fails with NotSupported and leaves the handle as it was.
C21_FcntlGetSetOnly ==
    [][\A h \in DOMAIN handles :
          (ret' # ret /\ ret'.op = "fcntl" /\ ret'.h = h) =>
              /\ ret'.cmd = F_GETFL =>
                    /\ ret'.r = [ok |-> TRUE, flags |-> handles[h].flags]
                    /\ handles' = handles
              /\ ret'.cmd = F_SETFL => handles'[h].flags = ret'.arg
              /\ (ret'.cmd # F_GETFL /\ ret'.cmd # F_SETFL) =>
                    /\ ret'.r = Err("NotSupported")
                    /\ handles' = handles]_vars

\* ---------------------------------------------------- fstat, observed
\* SqliteFileOps::fstat after get_or_create_ino returned r: the stats of the
\* store with the length of the handle's buffer as the size
fstat(hd, r) ==
    IF ~r.ok THEN r
    ELSE LET stats == IF r.create
                      THEN [ino |-> r.ino, kind |-> "file", size |-> 0]
                      ELSE fs_getattr(r.ino)
         IN IF stats.ino = 0 THEN Err("NotFound")
            ELSE Ok(libc_stat(stats, Len(hd.data)))

\* fstat on a file handle, its result recorded
FstatRet(h) ==
    /\ handles[h].state = "open"
    /\ handles[h].kind = "file"
    /\ LET r == get_or_create_ino(handles[h])
       IN /\ IF r.ok /\ r.create
             THEN create_file(r)
             ELSE UNCHANGED <<inodes, dirents>>
          /\ ret' = [op |-> "fstat", h |-> h, r |-> fstat(handles[h], r)]
    /\ UNCHANGED <<handles, calls, content0, otherVars>>

\* SqliteDirectoryOps::fstat: the stats of the store
dir_fstat(hd) ==
    IF fs_getattr(hd.ino).ino = 0 THEN Err("NotFound")
    ELSE Ok(libc_stat(fs_getattr(hd.ino), fs_getattr(hd.ino).size))

DirFstat(h) ==
    /\ handles[h].state = "open"
    /\ handles[h].kind = "dir"
    /\ ret' = [op |-> "fstat", h |-> h, r |-> dir_fstat(handles[h])]
    /\ UNCHANGED <<inodes, dirents, handles, calls, content0, otherVars>>

\* SpecStat: one handle on the mount point, on "f" or on "g"; the handle is
\* written, flushed and closed, and fstat on the handle and stat and lstat
\* on the paths are called in between.
StatFlags == {{}, {O_CREAT}, {O_TRUNC}}
StatPaths == {MountPoint, PathF, PathG}
StatInit == VfsInit(InitContents(MaxInitLen), 1, 1)
StatNext ==
    \/ \E h \in DOMAIN handles, path \in StatPaths, flags \in StatFlags : Open(h, path, flags)
    \/ \E h \in DOMAIN handles, buf \in Bufs :
          handles[h].written + Len(buf) <= MaxWritten /\ Write(h, buf)
    \/ \E h \in DOMAIN handles : FstatRet(h)
    \/ \E h \in DOMAIN handles : DirFstat(h)
    \/ \E path \in StatPaths : Stat(path)
    \/ \E path \in StatPaths : Lstat(path)
    \/ \E t \in DOMAIN calls, h \in DOMAIN handles : FsyncStart(t, h, "fsync")
    \/ \E t \in DOMAIN calls, h \in DOMAIN handles : FsyncStart(t, h, "close")
    \/ \E t \in DOMAIN calls : FsyncClone(t)
    \/ \E t \in DOMAIN calls : FsyncGetIno(t)
    \/ \E t \in DOMAIN calls, ok \in BOOLEAN : FsyncPwrite(t, ok)
    \/ \E t \in DOMAIN calls, ok \in BOOLEAN : FsyncTruncate(t, ok)
    \/ \E t \in DOMAIN calls : FsyncClear(t)

SpecStat == StatInit /\ [][StatNext]_vars

\* st_blksize is 4096 and st_blocks the number of 4096-byte blocks that
\* cover st_size.
BlocksCoverSize(st) ==
    /\ st.st_blksize = 4096
    /\ st.st_blocks * 4096 >= st.st_size
    /\ (st.st_blocks - 1) * 4096 < st.st_size \/ (st.st_blocks = 0 /\ st.st_size = 0)

StatReturned(op) == ret' # ret /\ ret'.op = op /\ ret'.r.ok

\* C22: every stat result has st_blksize 4096 and st_blocks = ceil(st_size /
\* 4096); stat and lstat report the stored length of the content; and fstat
\* on the only open handle of a file reports the size that stat on the
\* file's path reports.
C22_StatSizes ==
    [][/\ (StatReturned("stat") \/ StatReturned("lstat")) =>
             /\ BlocksCoverSize(ret'.r.val)
             /\ ret'.r.val.st_size = Len(inodes'[ret'.r.val.st_ino].data)
       /\ StatReturned("fstat") => BlocksCoverSize(ret'.r.val)
       /\ \A h \in DOMAIN handles, path \in VfsPaths :
             (StatReturned("fstat") /\ ret'.h = h /\ handles[h].kind = "file"
              /\ path = MountPoint \o handles[h].path) =>
                 /\ stat(path)'.ok
                 /\ stat(path)'.val.st_size = ret'.r.val.st_size]_vars

\* ------------------------------------------------------ DeferredNotifier
\* cli/src/fuser/deferred_notify.rs. A DeferredNotifier holds the Sender of
\* a std::sync::mpsc channel (mpsc::channel(): no capacity); inval_entry
\* sends one NotifyOp::InvalEntry and logs a send error at debug level. The
\* notify thread that owns the Receiver and writes to the kernel channel is
\* not part of the file: it is modelled as the documentation describes it, a
\* loop that receives one message and writes it, and that ends when recv
\* reports that every Sender is gone. The n-th message of a clone stands for
\* the (parent, name) pair of its n-th call.

\* The threads that hold a clone: the session loop and one more.
Producers == {"session", "worker"}
NotifyThread == "notify"
SendSeqs == 1..MaxSend
NoMsg == [from |-> "none", seq |-> 0]

\* The Receiver exists while the notify thread runs
ReceiverAlive == consumer.pc = "recv" \/ consumer.pc = "write"

\* A send that puts the message at the head of the channel.
send_front(q, msg) == <<msg>> \o q

\* mpsc::Sender::send to a live Receiver: the message joins the tail
send(q, msg) == Append(q, msg)

\* An inval_entry that writes to the kernel channel itself.
inval_entry_sync(p, msg) ==
    [queue |-> queue,
     dispatched |-> Append(dispatched, [from |-> msg.from, seq |-> msg.seq, by |-> p]),
     result |-> "void"]

\* An inval_entry that hands the send error to its caller.
inval_entry_checked(p, msg) ==
    [queue |-> IF ReceiverAlive THEN send(queue, msg) ELSE queue,
     dispatched |-> dispatched,
     result |-> IF ReceiverAlive THEN "void" ELSE "SendError"]

\* DeferredNotifier::inval_entry called by thread p: the channel after the
\* call, the kernel writes, and what the caller gets. A send error (the
\* Receiver is gone) is logged and dropped.
inval_entry(p, msg) ==
    [queue |-> IF ReceiverAlive THEN send(queue, msg) ELSE queue,
     dispatched |-> dispatched,
     result |-> "void"]

nonNotifyVars ==
    <<pathVars, inodes, dirents, handles, calls, content0, ovlVars, poolVars, daemonVars, lockVars>>

InvalEntry(p) ==
    /\ p \in senders
    /\ sent[p] < MaxSend
    /\ LET msg == [from |-> p, seq |-> sent[p] + 1]
           r == inval_entry(p, msg)
       IN /\ queue' = r.queue
          /\ dispatched' = r.dispatched
          /\ ret' = [op |-> "inval_entry", p |-> p, seq |-> msg.seq,
                     consumer |-> consumer.pc, r |-> r.result]
    /\ sent' = [sent EXCEPT ![p] = @ + 1]
    /\ UNCHANGED <<senders, consumer, nonNotifyVars>>

\* Drop of a DeferredNotifier clone: its Sender goes
DropSender(p) ==
    /\ p \in senders
    /\ senders' = senders \ {p}
    /\ UNCHANGED <<sent, queue, consumer, dispatched, ret, nonNotifyVars>>

\* A recv that reports the disconnection as soon as every Sender is gone.
recv_disconnect_early(q, live) ==
    IF live = {} THEN [kind |-> "disconnected", msg |-> NoMsg]
    ELSE IF q # <<>> THEN [kind |-> "msg", msg |-> Head(q)]
    ELSE [kind |-> "wait", msg |-> NoMsg]

\* mpsc::Receiver::recv: the head of the channel; an error once the channel
\* is empty and every Sender is gone; otherwise the thread waits
recv(q, live) ==
    IF q # <<>> THEN [kind |-> "msg", msg |-> Head(q)]
    ELSE IF live = {} THEN [kind |-> "disconnected", msg |-> NoMsg]
    ELSE [kind |-> "wait", msg |-> NoMsg]

\* The notify thread takes the next message
ConsumerRecv ==
    /\ consumer.pc = "recv"
    /\ recv(queue, senders).kind = "msg"
    /\ consumer' = [pc |-> "write", msg |-> recv(queue, senders).msg]
    /\ queue' = Tail(queue)
    /\ UNCHANGED <<senders, sent, dispatched, ret, nonNotifyVars>>

\* The kernel has processed the write of the notify thread
ConsumerWrite ==
    /\ consumer.pc = "write"
    /\ dispatched' = Append(dispatched, [from |-> consumer.msg.from,
                                         seq |-> consumer.msg.seq, by |-> NotifyThread])
    /\ consumer' = [pc |-> "recv", msg |-> NoMsg]
    /\ UNCHANGED <<senders, sent, queue, ret, nonNotifyVars>>

\* recv reports the disconnection: the notify thread ends
ConsumerExit ==
    /\ consumer.pc = "recv"
    /\ recv(queue, senders).kind = "disconnected"
    /\ consumer' = [pc |-> "exited", msg |-> NoMsg]
    /\ UNCHANGED <<senders, sent, queue, dispatched, ret, nonNotifyVars>>

\* The kernel channel is closed under the notify thread (unmount): the write
\* fails, the thread ends and the Receiver is dropped with what it holds
ConsumerFail ==
    /\ consumer.pc = "write"
    /\ consumer' = [pc |-> "failed", msg |-> NoMsg]
    /\ queue' = <<>>
    /\ UNCHANGED <<senders, sent, dispatched, ret, nonNotifyVars>>

NotifyInit ==
    /\ senders = Producers
    /\ sent = [p \in Producers |-> 0]
    /\ queue = <<>>
    /\ consumer = [pc |-> "recv", msg |-> NoMsg]
    /\ dispatched = <<>>
    /\ pathArg = <<>>
    /\ pathRes = [op |-> "none"]
    /\ VfsIdle
    /\ OvlIdle
    /\ PoolIdle
    /\ DaemonIdle
    /\ LockIdle

\* The notifier while the kernel channel stays open
NotifyLiveNext ==
    \/ \E p \in Producers : InvalEntry(p)
    \/ \E p \in Producers : DropSender(p)
    \/ ConsumerRecv
    \/ ConsumerWrite
    \/ ConsumerExit

NotifyNext ==
    \/ \E p \in Producers : InvalEntry(p)
    \/ \E p \in Producers : DropSender(p)
    \/ ConsumerRecv
    \/ ConsumerWrite
    \/ ConsumerExit
    \/ ConsumerFail

SpecNotify == NotifyInit /\ [][NotifyNext]_vars

\* The notify thread is scheduled, and the kernel completes its writes.
SpecNotifyLive ==
    /\ NotifyInit
    /\ [][NotifyLiveNext]_vars
    /\ WF_vars(ConsumerRecv)
    /\ WF_vars(ConsumerWrite)
    /\ WF_vars(ConsumerExit)

\* C23: inval_entry can be called whatever the channel holds and whatever
\* the notify thread does (receiving, stalled in a write, gone); it returns
\* to its caller in the same step with no error, leaves the notify thread
\* alone, and its message joins the channel, or is discarded when the notify
\* thread is gone.
C23_InvalEntryReturns ==
    /\ [](\A p \in Producers : (p \in senders /\ sent[p] < MaxSend) => ENABLED InvalEntry(p))
    /\ [][\A p \in Producers :
             sent'[p] # sent[p] =>
                 /\ ret'.r = "void"
                 /\ consumer' = consumer
                 /\ dispatched' = dispatched
                 /\ senders' = senders
                 /\ ReceiverAlive =>
                       queue' = Append(queue, [from |-> p, seq |-> sent'[p]])
                 /\ ~ReceiverAlive => queue' = queue]_vars

C23_Witness ==
    /\ ret.op = "inval_entry"
    /\ ret.consumer = "failed"
    /\ ret.r = "void"
    /\ queue = <<>>

\* The capacity the channel would have to respect.
NotifyCapacity == 3

\* C24: the messages enqueued and not yet taken by the notify thread never
\* number more than a fixed capacity.
C24_QueueBounded == Len(queue) <= NotifyCapacity

\* C25: two messages of one clone are written to the kernel channel in the
\* order they were sent, and the notify thread holds one message at a time.
C25_FifoPerProducer ==
    /\ \A i, j \in 1..Len(dispatched) :
          (i < j /\ dispatched[i].from = dispatched[j].from) =>
              dispatched[i].seq < dispatched[j].seq
    /\ consumer.pc = "write" =>
          \A i \in 1..Len(queue) : queue[i] # consumer.msg

C25_Witness ==
    /\ Len(dispatched) >= 3
    /\ dispatched[1].from = "worker"
    /\ dispatched[2].from = "session"
    /\ dispatched[3].from = "worker"

\* C26: every write to the kernel channel is made by the notify thread,
\* never by a thread that called inval_entry.
C26_WriteOffSession ==
    \A i \in 1..Len(dispatched) :
        /\ dispatched[i].by = NotifyThread
        /\ dispatched[i].by \notin Producers

C26_Witness ==
    /\ ret.op = "inval_entry"
    /\ ret.p = "session"
    /\ ret.consumer = "write"
    /\ Len(dispatched) >= 1
    /\ queue # <<>>

Dispatched(p, n) ==
    \E i \in 1..Len(dispatched) : dispatched[i].from = p /\ dispatched[i].seq = n

\* C27: the notify thread ends only when every clone is dropped and the
\* channel is empty, having written every message sent; once every clone is
\* dropped it ends; and every message sent is written.
C27_Shutdown ==
    /\ [](consumer.pc = "exited" =>
             /\ senders = {}
             /\ queue = <<>>
             /\ \A p \in Producers, n \in SendSeqs : sent[p] >= n => Dispatched(p, n))
    /\ (senders = {}) ~> (consumer.pc = "exited")
    /\ \A p \in Producers, n \in SendSeqs : (sent[p] >= n) ~> Dispatched(p, n)

C27_Witness ==
    /\ consumer.pc = "exited"
    /\ Len(dispatched) >= 3

\* ------------------------------------------------------- ConnectionPool
\* sdk/rust/src/connection_pool.rs. get_conn pops the idle stack under the
\* mutex, releases the mutex, and connects when the stack was empty; the
\* drop of a PooledConnection pushes its connection under the mutex. Calls
\* of several threads interleave between the pop and the connect.
\* Connections are numbered in the order db.connect() returns them; 0 is no
\* connection.

PoolThreads == {"a", "b"}
Slots == 1..MaxHeld

\* A pop that leaves the connection on the stack.
pop_peek(p) ==
    IF p = <<>> THEN [conn |-> 0, pool |-> p] ELSE [conn |-> p[Len(p)], pool |-> p]

\* A pop from the bottom of the stack.
pop_first(p) ==
    IF p = <<>> THEN [conn |-> 0, pool |-> p] ELSE [conn |-> p[1], pool |-> Tail(p)]

\* get_conn, lines 60-63: pool.pop() under the lock
pop(p) ==
    IF p = <<>> THEN [conn |-> 0, pool |-> p]
    ELSE [conn |-> p[Len(p)], pool |-> SubSeq(p, 1, Len(p) - 1)]

\* A drop that lets the connection go.
drop_forget(p, conn) == p

\* Drop for PooledConnection: conn.take() is pushed under the lock
drop(p, conn) == Append(p, conn)

Live == {w \in Slots : wrappers[w] # 0}
Connecting == {t \in PoolThreads : getting[t] = "connect"}

\* The slot of the next PooledConnection.
FreeSlot(w) ==
    /\ wrappers[w] = 0
    /\ \A v \in Slots : v < w => wrappers[v] # 0

nonPoolVars ==
    <<pathVars, inodes, dirents, handles, calls, content0, ovlVars, notifyVars, daemonVars, lockVars>>

\* get_conn up to the match: the pop, and the PooledConnection when the stack
\* held a connection
GetConn(t) ==
    /\ getting[t] = "idle"
    /\ Cardinality(Live) + Cardinality(Connecting) < MaxHeld
    /\ pool' = pop(pool).pool
    /\ IF pop(pool).conn # 0
       THEN /\ \E w \in Slots :
                 /\ FreeSlot(w)
                 /\ wrappers' = [wrappers EXCEPT ![w] = pop(pool).conn]
            /\ ret' = [op |-> "get_conn", t |-> t, conn |-> pop(pool).conn,
                       new |-> FALSE, ok |-> TRUE]
            /\ peak' = Max(peak, Cardinality(Live) + 1)
            /\ UNCHANGED getting
       ELSE /\ getting' = [getting EXCEPT ![t] = "connect"]
            /\ UNCHANGED <<wrappers, ret, peak>>
    /\ UNCHANGED <<opened, nonPoolVars>>

\* get_conn, lines 67-76: db.connect() and the PooledConnection, or the error
Connect(t, ok) ==
    /\ getting[t] = "connect"
    /\ opened < MaxConns
    /\ getting' = [getting EXCEPT ![t] = "idle"]
    /\ IF ok
       THEN /\ opened' = opened + 1
            /\ \E w \in Slots :
                 /\ FreeSlot(w)
                 /\ wrappers' = [wrappers EXCEPT ![w] = opened + 1]
            /\ ret' = [op |-> "get_conn", t |-> t, conn |-> opened + 1,
                       new |-> TRUE, ok |-> TRUE]
            /\ peak' = Max(peak, Cardinality(Live) + 1)
       ELSE /\ ret' = [op |-> "get_conn", t |-> t, conn |-> 0, new |-> FALSE, ok |-> FALSE]
            /\ UNCHANGED <<opened, wrappers, peak>>
    /\ UNCHANGED <<pool, nonPoolVars>>

\* Drop of the PooledConnection in slot w
Drop(w) ==
    /\ wrappers[w] # 0
    /\ pool' = drop(pool, wrappers[w])
    /\ wrappers' = [wrappers EXCEPT ![w] = 0]
    /\ ret' = [op |-> "drop", t |-> "none", conn |-> wrappers[w], new |-> FALSE, ok |-> TRUE]
    /\ UNCHANGED <<opened, getting, peak, nonPoolVars>>

PoolInit ==
    /\ pool = <<>>
    /\ wrappers = [w \in Slots |-> 0]
    /\ opened = 0
    /\ getting = [t \in PoolThreads |-> "idle"]
    /\ peak = 0
    /\ pathArg = <<>>
    /\ pathRes = [op |-> "none"]
    /\ VfsIdle
    /\ OvlIdle
    /\ NotifyIdle
    /\ DaemonIdle
    /\ LockIdle

PoolNext ==
    \/ \E t \in PoolThreads : GetConn(t)
    \/ \E t \in PoolThreads, ok \in BOOLEAN : Connect(t, ok)
    \/ \E w \in Slots : Drop(w)

SpecPool == PoolInit /\ [][PoolNext]_vars

\* C28: no connection is in two live PooledConnections, none is both idle and
\* in a PooledConnection, and none is twice in the idle stack.
C28_ConnectionExclusive ==
    /\ \A v, w \in Slots : (v # w /\ wrappers[v] # 0) => wrappers[v] # wrappers[w]
    /\ \A w \in Slots, i \in 1..Len(pool) : pool[i] # wrappers[w]
    /\ \A i, j \in 1..Len(pool) : i # j => pool[i] # pool[j]

C28_Witness ==
    /\ ret.op = "get_conn"
    /\ ~ret.new
    /\ ret.ok
    /\ Cardinality(Live) >= 2
    /\ pool # <<>>

\* A step in which thread t ran get_conn up to the match.
GetConnStep(t) ==
    /\ getting[t] = "idle"
    /\ \/ getting'[t] = "connect"
       \/ ret' # ret /\ ret'.op = "get_conn" /\ ret'.t = t

\* C29: get_conn takes the top of the idle stack when there is one and opens
\* no connection then; it connects only when the stack was empty; right after
\* a drop it takes the dropped connection; and it never waits for a holder:
\* it can run whatever is held.
C29_TopOrNew ==
    /\ [](\A t \in PoolThreads :
             (getting[t] = "idle" /\ Cardinality(Live) + Cardinality(Connecting) < MaxHeld)
                 => ENABLED GetConn(t))
    /\ [][\A t \in PoolThreads :
             /\ GetConnStep(t) =>
                   /\ opened' = opened
                   /\ pool # <<>> =>
                         /\ ret'.conn = pool[Len(pool)]
                         /\ ~ret'.new
                         /\ pool' = SubSeq(pool, 1, Len(pool) - 1)
                         /\ getting'[t] = "idle"
                   /\ pool = <<>> => getting'[t] = "connect"
                   /\ ret.op = "drop" => (ret'.op = "get_conn" /\ ret'.conn = ret.conn)
             /\ opened' # opened => Connecting # {}]_vars

C29_Witness ==
    /\ ret.op = "get_conn"
    /\ ~ret.new
    /\ Len(pool) >= 1
    /\ ret.conn > pool[Len(pool)]

\* C30: the idle connections and the live PooledConnections together are the
\* connections ever opened, so when every PooledConnection is dropped the
\* idle stack holds them all.
C30_PoolConservation ==
    /\ Len(pool) + Cardinality(Live) = opened
    /\ Live = {} => Len(pool) = opened

C30_Witness ==
    /\ ret.op = "drop"
    /\ Live = {}
    /\ opened = MaxHeld
    /\ Len(pool) = MaxHeld

\* C36: the connections ever opened are no more than the PooledConnections
\* that were alive at the same time at some moment.
C36_OpenedWithinPeak == opened <= peak


\* ----------------------------------------------- the pending creation

\* Handle h holds inode 0: it was opened with O_CREAT on a missing path.
Pending(h) == handles[h].kind = "file" /\ handles[h].ino = 0

\* The flush of thread t (fsync, fdatasync or close), on a handle that holds
\* inode 0, has written the store and is about to return Ok.
Flushed(t) == calls[t].pc = "clear" /\ Pending(calls[t].h)

\* The file at the path of handle h holds data.
StoredAtPath(h, data) ==
    /\ open_stats(handles[h].path).ok
    /\ open_stats(handles[h].path).val.ino # 0
    /\ inodes[open_stats(handles[h].path).val.ino].data = data

\* C33: on a handle that holds inode 0, every fstat returns Ok and no
\* fsync, fdatasync or close fails in get_or_create_ino; the file is created
\* once; and a flush that returns Ok has left the buffer as it found it in
\* the file at the handle's path.
C33_PendingCreatedOnce ==
    /\ [][\A h \in DOMAIN handles : (handles[h].state = "open" /\ Pending(h)) =>
             /\ (ret' # ret /\ ret'.op = "fstat" /\ ret'.h = h) => ret'.r.ok
             /\ \A t \in DOMAIN calls :
                   (calls[t].pc = "get_ino" /\ calls[t].h = h) => calls'[t].pc # "idle"
             /\ Len(inodes') <= Len(inodes) + 1]_vars
    /\ [](Len(inodes) <= 3)
    /\ [](\A t \in DOMAIN calls : Flushed(t) => StoredAtPath(calls[t].h, calls[t].data))

\* C33, the part that holds: the file of a handle that holds inode 0 is
\* created once, by the first fstat or the first flush; every later fstat
\* and every later flush of a dirty buffer fails; a flush that returns Ok
\* has left the buffer as it found it in the file at the handle's path.
C33_SecondCreateFails ==
    /\ [][\A h \in DOMAIN handles :
             (handles[h].state = "open" /\ Pending(h)
              /\ open_stats(handles[h].path).val.ino # 0) =>
                 /\ (ret' # ret /\ ret'.op = "fstat" /\ ret'.h = h) => ~ret'.r.ok
                 /\ \A t \in DOMAIN calls :
                       (calls[t].pc = "get_ino" /\ calls[t].h = h
                        /\ calls'[t].pc # "get_ino") => calls'[t].pc = "idle"]_vars
    /\ [](Len(inodes) <= 3)
    /\ [](\A t \in DOMAIN calls : Flushed(t) => StoredAtPath(calls[t].h, calls[t].data))

\* ------------------------------------------------------------- daemonize
\* cli/src/daemon.rs. daemonize forks; the child polls ready_check while the
\* daemon thread runs daemon_fn, then reports to the parent over a pipe; the
\* parent reads the report in wait_for_signal. Strings are their UTF-8 bytes.

\* The most short writes, and the most chosen short reads, of one message.
MaxShort == 2

\* The most EINTR results of the reads, and of the writes, of one message.
MaxEintr == 1

\* The longest timeout, in clock steps.
MaxTimeout == 2

MAX_ERROR_MSG_LEN == 4096

DaemonFailedToStart ==
    <<68, 97, 101, 109, 111, 110, 32, 102, 97, 105, 108, 101, 100, 32, 116, 111,
      32, 115, 116, 97, 114, 116>>
TerminatedUnexpectedly ==
    <<68, 97, 101, 109, 111, 110, 32, 112, 114, 111, 99, 101, 115, 115, 32, 116,
      101, 114, 109, 105, 110, 97, 116, 101, 100, 32, 117, 110, 101, 120, 112,
      101, 99, 116, 101, 100, 108, 121>>
SetsidFailed ==
    <<70, 97, 105, 108, 101, 100, 32, 116, 111, 32, 99, 114, 101, 97, 116, 101,
      32, 110, 101, 119, 32, 115, 101, 115, 115, 105, 111, 110>>
PipeFailed ==
    <<70, 97, 105, 108, 101, 100, 32, 116, 111, 32, 99, 114, 101, 97, 116, 101,
      32, 112, 105, 112, 101, 58, 32>>
ForkFailed == <<70, 111, 114, 107, 32, 102, 97, 105, 108, 101, 100, 58, 32>>

\* Result<(), String>
ROk == [ok |-> TRUE, msg |-> <<>>]
RErr(m) == [ok |-> FALSE, msg |-> m]

\* u32::to_be_bytes and u32::from_be_bytes
to_be_bytes(n) ==
    <<(n \div 16777216) % 256, (n \div 65536) % 256, (n \div 256) % 256, n % 256>>
\* The u32 is kept as its two 16-bit halves: its value is hi * 65536 + lo.
from_be_bytes(b) == [hi |-> b[1] * 256 + b[2], lo |-> b[3] * 256 + b[4]]

\* (x as usize).min(cap), for a cap below 65536
u32_min(x, cap) == IF x.hi > 0 THEN cap ELSE Min(x.lo, cap)

\* String::from_utf8_lossy on the one- and two-byte sequences of UTF-8: a
\* byte that is no part of a complete sequence becomes U+FFFD (EF BF BD).
IsAscii(b) == b < 128
IsLead(b) == b >= 194 /\ b <= 223
IsCont(b) == b >= 128 /\ b <= 191
REPLACEMENT_CHARACTER == <<239, 191, 189>>

lossy_byte(b, i) ==
    IF \/ IsAscii(b[i])
       \/ IsLead(b[i]) /\ i < Len(b) /\ IsCont(b[i + 1])
       \/ IsCont(b[i]) /\ i > 1 /\ IsLead(b[i - 1])
    THEN <<b[i]>>
    ELSE REPLACEMENT_CHARACTER

RECURSIVE lossy_range(_, _, _)
lossy_range(b, lo, hi) ==
    IF lo > hi THEN <<>>
    ELSE IF lo = hi THEN lossy_byte(b, lo)
    ELSE LET mid == (lo + hi) \div 2
         IN lossy_range(b, lo, mid) \o lossy_range(b, mid + 1, hi)

from_utf8_lossy(b) == lossy_range(b, 1, Len(b))

\* signal_parent, lines 116-129: the bytes of the report
signal_buf(result) ==
    IF result.ok THEN <<0>>
    ELSE LET len == Min(Len(result.msg), MAX_ERROR_MSG_LEN)
         IN <<1>> \o to_be_bytes(len) \o SubSeq(result.msg, 1, len)

NoResult == [ok |-> FALSE, msg |-> <<>>]

nonDaemonVars ==
    <<pathVars, inodes, dirents, handles, calls, content0, ret, ovlVars, notifyVars,
      poolVars, lockVars>>

\* The child inside signal_parent(result), before its first write.
Signalling(c, result, buf) ==
    [c EXCEPT !.pc = "write", !.result = result, !.buf = buf, !.total = 0,
              !.signals = c.signals + 1]

\* libc::write accepts k bytes, or what is left to write.
PipeWriteSizes == {1, 2, 5, 8192}

\* signal_parent, lines 131-151: one libc::write that wrote something; the
\* call returns Ok when the buffer is written
SignalWrite(k) ==
    /\ childProc.pc = "write"
    /\ LET left == Len(childProc.buf) - childProc.total
           n == Min(k, left)
       IN /\ n < left => childProc.shorts < MaxShort
          /\ pipe' = [pipe EXCEPT !.bytes = pipe.bytes \o
                         SubSeq(childProc.buf, childProc.total + 1, childProc.total + n)]
          /\ childProc' = [childProc EXCEPT
                 !.total = childProc.total + n,
                 !.shorts = IF n < left THEN childProc.shorts + 1 ELSE childProc.shorts,
                 !.pc = IF n = left THEN "close" ELSE "write"]
    /\ UNCHANGED <<dthread, clock, parentProc, nonDaemonVars>>

\* signal_parent, lines 142-146: libc::write returned -1 with EINTR
SignalEintr ==
    /\ childProc.pc = "write"
    /\ childProc.eintr < MaxEintr
    /\ childProc' = [childProc EXCEPT !.eintr = childProc.eintr + 1]
    /\ UNCHANGED <<dthread, clock, pipe, parentProc, nonDaemonVars>>

\* A close that leaves the descriptor open.
close_leak(writers, who) == writers

\* libc::close of a write end of the pipe
close(writers, who) == writers \ {who}

\* daemonize, lines 85-89: close(write_fd), and exit(1) when not ready
ChildClose ==
    /\ childProc.pc = "close"
    /\ pipe' = [pipe EXCEPT !.writers = close(pipe.writers, "child")]
    /\ childProc' = IF childProc.ready
                    THEN [childProc EXCEPT !.pc = "join"]
                    ELSE [childProc EXCEPT !.pc = "exited", !.code = 1]
    /\ UNCHANGED <<dthread, clock, parentProc, nonDaemonVars>>

\* wait_for_signal after a read_exact that returned Some(buf): the return,
\* or the next read_exact
wait_for_signal_some(phase, buf) ==
    IF phase = "status"
    THEN IF buf[1] = 0
         THEN [pc |-> "returned", need |-> 0, result |-> ROk]
         ELSE [pc |-> "len", need |-> 4, result |-> NoResult]
    ELSE IF phase = "len"
    THEN LET len == u32_min(from_be_bytes(buf), MAX_ERROR_MSG_LEN)
         IN IF len = 0
            THEN [pc |-> "returned", need |-> 0, result |-> RErr(DaemonFailedToStart)]
            ELSE [pc |-> "msg", need |-> len, result |-> NoResult]
    ELSE [pc |-> "returned", need |-> 0, result |-> RErr(from_utf8_lossy(buf))]

\* wait_for_signal after a read_exact that returned None
wait_for_signal_none(phase) ==
    IF phase = "status" THEN RErr(TerminatedUnexpectedly) ELSE RErr(DaemonFailedToStart)

Reading == parentProc.pc = "status" \/ parentProc.pc = "len" \/ parentProc.pc = "msg"

\* libc::read returns k bytes, or what the pipe holds, or what is asked for.
PipeReadSizes == {1, 2, 4096}

\* read_exact, lines 195-206: one libc::read that returned bytes; with the
\* last byte read_exact returns and wait_for_signal goes on (lines 157-187),
\* and daemonize returns its result (lines 101-106)
ParentRead(k) ==
    /\ Reading
    /\ pipe.bytes # <<>>
    /\ LET want == parentProc.need - Len(parentProc.got)
           full == Min(want, Len(pipe.bytes))
           n == Min(k, full)
           got == parentProc.got \o SubSeq(pipe.bytes, 1, n)
           shorts == IF n < full THEN parentProc.shorts + 1 ELSE parentProc.shorts
       IN /\ n < full => parentProc.shorts < MaxShort
          /\ pipe' = [pipe EXCEPT !.bytes = SubSeq(pipe.bytes, n + 1, Len(pipe.bytes))]
          /\ parentProc' =
                IF n < want
                THEN [parentProc EXCEPT !.got = got, !.shorts = shorts]
                ELSE LET nx == wait_for_signal_some(parentProc.pc, got)
                     IN [parentProc EXCEPT !.pc = nx.pc, !.need = nx.need, !.got = <<>>,
                                           !.shorts = shorts, !.result = nx.result,
                                           !.asked = Max(parentProc.asked, nx.need)]
    /\ UNCHANGED <<childProc, dthread, clock, nonDaemonVars>>

\* read_exact, lines 207-209: libc::read returned 0, every write end is closed
ParentEof ==
    /\ Reading
    /\ pipe.bytes = <<>>
    /\ pipe.writers = {}
    /\ parentProc' = [parentProc EXCEPT !.pc = "returned", !.got = <<>>,
                         !.result = wait_for_signal_none(parentProc.pc)]
    /\ UNCHANGED <<childProc, dthread, clock, pipe, nonDaemonVars>>

\* read_exact, lines 210-215: libc::read returned -1 with EINTR
ParentEintr ==
    /\ Reading
    /\ parentProc.eintr < MaxEintr
    /\ parentProc' = [parentProc EXCEPT !.eintr = parentProc.eintr + 1]
    /\ UNCHANGED <<childProc, dthread, clock, pipe, nonDaemonVars>>

NonDaemonIdle ==
    /\ pathArg = <<>>
    /\ pathRes = [op |-> "none"]
    /\ VfsIdle
    /\ OvlIdle
    /\ NotifyIdle
    /\ PoolIdle
    /\ LockIdle

ascii(n) == [i \in 1..n |-> 97]

\* The messages of signal_parent(Err(m)): empty, short, with a two-byte
\* character, and around MAX_ERROR_MSG_LEN with and without a character
\* across the cut.
PipeMsgs ==
    {<<>>, <<104, 105>>, <<195, 169>>, ascii(MAX_ERROR_MSG_LEN),
     ascii(MAX_ERROR_MSG_LEN + 1), ascii(MAX_ERROR_MSG_LEN - 1) \o <<195, 169>>}
PipeResults == {ROk} \cup {RErr(m) : m \in PipeMsgs}

\* Byte streams no signal_parent writes: a length field above the cap with
\* as many bytes behind it, and a report cut short.
RawStreams ==
    {<<1, 255, 255, 255, 255>> \o ascii(MAX_ERROR_MSG_LEN + 2),
     <<1, 0, 0, 32, 0>> \o ascii(MAX_ERROR_MSG_LEN + 2),
     <<1, 0, 0>>, <<1, 0, 0, 0, 2, 97>>}

ChildIn(result, buf, raw) ==
    [pc |-> "write", ready |-> result.ok, late |-> FALSE, raw |-> raw,
     result |-> result, buf |-> buf, total |-> 0, shorts |-> 0, eintr |-> 0,
     signals |-> 1, code |-> 0]

ParentWaiting ==
    [pc |-> "status", need |-> 1, got |-> <<>>, shorts |-> 0, eintr |-> 0,
     result |-> NoResult, asked |-> 1]

\* signal_parent(result) in one process and wait_for_signal in the other
PipeInit ==
    /\ \/ \E result \in PipeResults : childProc = ChildIn(result, signal_buf(result), FALSE)
       \/ \E buf \in RawStreams : childProc = ChildIn(NoResult, buf, TRUE)
    /\ dthread = [st |-> "none"]
    /\ clock = [now |-> 0]
    /\ pipe = [bytes |-> <<>>, writers |-> {"child"}]
    /\ parentProc = ParentWaiting
    /\ NonDaemonIdle

PipeNext ==
    \/ \E k \in PipeWriteSizes : SignalWrite(k)
    \/ SignalEintr
    \/ ChildClose
    \/ \E k \in PipeReadSizes : ParentRead(k)
    \/ ParentEof
    \/ ParentEintr

SpecPipe == PipeInit /\ [][PipeNext]_vars

\* What the claim expects wait_for_signal to return for a report.
Expected(result) ==
    IF result.ok THEN ROk
    ELSE IF result.msg = <<>> THEN RErr(DaemonFailedToStart)
    ELSE RErr(SubSeq(result.msg, 1, Min(Len(result.msg), MAX_ERROR_MSG_LEN)))

\* C34: once signal_parent(result) has written its report, wait_for_signal
\* returns Ok for Ok and, for Err(m), Err of the first min(len(m), 4096)
\* bytes of m ("Daemon failed to start" for the empty m), however the bytes
\* were split over the writes and the reads and whatever was interrupted;
\* and it never asks read_exact for more than 4096 message bytes.
C34_PipeRoundTrip ==
    /\ parentProc.asked <= MAX_ERROR_MSG_LEN
    /\ (parentProc.pc = "returned" /\ ~childProc.raw)
           => parentProc.result = Expected(childProc.result)

\* C34, the part that holds: the same with the message decoded lossily.
C34_LossyRoundTrip ==
    /\ parentProc.asked <= MAX_ERROR_MSG_LEN
    /\ Len(parentProc.got) <= parentProc.need
    /\ (parentProc.pc = "returned" /\ ~childProc.raw) =>
          /\ childProc.total = Len(childProc.buf)
          /\ parentProc.result =
                IF childProc.result.ok \/ childProc.result.msg = <<>>
                THEN Expected(childProc.result)
                ELSE RErr(from_utf8_lossy(Expected(childProc.result).msg))

\* ---- the two processes of daemonize

Finished == dthread.st = "ok" \/ dthread.st = "err" \/ dthread.st = "panic"
Elapsed == clock.now >= clock.timeout

ChildAlive ==
    \/ childProc.pc = "setsid"
    \/ childProc.pc = "poll"
    \/ childProc.pc = "signal"
    \/ childProc.pc = "write"
    \/ childProc.pc = "close"
    \/ childProc.pc = "join"

StartOutcomes == {"pipe_failed", "fork_failed", "forked"}

\* daemonize, lines 29-44: libc::pipe and libc::fork
Start(outcome) ==
    /\ parentProc.pc = "start"
    /\ IF outcome = "forked"
       THEN /\ parentProc' = [parentProc EXCEPT !.pc = "closew"]
            /\ childProc' = [childProc EXCEPT !.pc = "setsid"]
            /\ pipe' = [pipe EXCEPT !.writers = {"parent", "child"}]
       ELSE /\ parentProc' = [parentProc EXCEPT !.pc = "returned",
                                 !.result = IF outcome = "pipe_failed"
                                            THEN RErr(PipeFailed) ELSE RErr(ForkFailed)]
            /\ UNCHANGED <<childProc, pipe>>
    /\ UNCHANGED <<dthread, clock, nonDaemonVars>>

\* daemonize, lines 95-100: the parent closes its write end and calls
\* wait_for_signal
ParentCloseWrite ==
    /\ parentProc.pc = "closew"
    /\ pipe' = [pipe EXCEPT !.writers = close(pipe.writers, "parent")]
    /\ parentProc' = [parentProc EXCEPT !.pc = "status", !.need = 1]
    /\ UNCHANGED <<childProc, dthread, clock, nonDaemonVars>>

\* daemonize, lines 45-57: setsid, then start_daemon (lines 220-243) and the
\* start of the clock, or the report of the failure
ChildSetsid(ok) ==
    /\ childProc.pc = "setsid"
    /\ IF ok
       THEN /\ childProc' = [childProc EXCEPT !.pc = "poll"]
            /\ dthread' = [dthread EXCEPT !.st = "running"]
       ELSE /\ childProc' = Signalling(childProc, RErr(SetsidFailed),
                                       signal_buf(RErr(SetsidFailed)))
            /\ UNCHANGED dthread
    /\ UNCHANGED <<clock, pipe, parentProc, nonDaemonVars>>

DaemonOutcomes == {"ok", "err", "panic"}

\* What daemon_fn's error prints as: nothing, or a text ("e").
DaemonErrs == {<<>>, <<101>>}

\* start_daemon, lines 233-241: daemon_fn returns (or panics); an error is
\* stored in error_msg before the thread ends
DaemonFinish(outcome, e) ==
    /\ dthread.st = "running"
    /\ dthread' = IF outcome = "err"
                  THEN [st |-> "err", has |-> TRUE, err |-> e]
                  ELSE [dthread EXCEPT !.st = outcome]
    /\ UNCHANGED <<childProc, clock, pipe, parentProc, nonDaemonVars>>

\* Time passes while the child polls.
Tick ==
    /\ childProc.pc = "poll"
    /\ clock.now < clock.timeout
    /\ clock' = [clock EXCEPT !.now = clock.now + 1]
    /\ UNCHANGED <<childProc, dthread, pipe, parentProc, nonDaemonVars>>

\* daemonize, lines 58-69: one turn of the polling loop, in which
\* ready_check() returned r
poll(r) ==
    IF r THEN "ready"
    ELSE IF Finished THEN "failed"
    ELSE IF Elapsed THEN "failed"
    ELSE "sleep"

PollOnce(r) ==
    /\ childProc.pc = "poll"
    /\ childProc' =
          IF poll(r) = "sleep" THEN childProc
          ELSE [childProc EXCEPT !.pc = "signal", !.ready = (poll(r) = "ready"),
                                 !.late = Finished \/ Elapsed]
    /\ UNCHANGED <<dthread, clock, pipe, parentProc, nonDaemonVars>>

\* daemonize, lines 72-83: the report
signal_result(ready) ==
    IF ready THEN ROk
    ELSE IF dthread.has THEN RErr(dthread.err)
    ELSE RErr(DaemonFailedToStart)

\* daemonize, line 84: the call of signal_parent
ChildSignal ==
    /\ childProc.pc = "signal"
    /\ childProc' = Signalling(childProc, signal_result(childProc.ready),
                               signal_buf(signal_result(childProc.ready)))
    /\ UNCHANGED <<dthread, clock, pipe, parentProc, nonDaemonVars>>

\* daemonize, lines 91-94: the exit status after daemon_thread.join()
exit_code(st) == IF st = "ok" THEN 0 ELSE 1

ChildJoin ==
    /\ childProc.pc = "join"
    /\ Finished
    /\ childProc' = [childProc EXCEPT !.pc = "exited", !.code = exit_code(dthread.st)]
    /\ UNCHANGED <<dthread, clock, pipe, parentProc, nonDaemonVars>>

\* The child dies of a signal: the kernel closes its descriptors.
ChildKilled ==
    /\ ChildAlive
    /\ childProc' = [childProc EXCEPT !.pc = "killed"]
    /\ pipe' = [pipe EXCEPT !.writers = close(pipe.writers, "child")]
    /\ UNCHANGED <<dthread, clock, parentProc, nonDaemonVars>>

Timeouts == 0..MaxTimeout

DaemonInit ==
    /\ childProc = [pc |-> "none", ready |-> FALSE, late |-> FALSE, raw |-> FALSE,
                    result |-> NoResult, buf |-> <<>>, total |-> 0, shorts |-> 0,
                    eintr |-> 0, signals |-> 0, code |-> 0]
    /\ dthread = [st |-> "none", has |-> FALSE, err |-> <<>>]
    /\ \E timeout \in Timeouts : clock = [now |-> 0, timeout |-> timeout]
    /\ pipe = [bytes |-> <<>>, writers |-> {}]
    /\ parentProc = [ParentWaiting EXCEPT !.pc = "start"]
    /\ NonDaemonIdle

\* The steps of the two processes and of the clock.
DaemonRun ==
    \/ \E outcome \in StartOutcomes : Start(outcome)
    \/ ParentCloseWrite
    \/ \E ok \in BOOLEAN : ChildSetsid(ok)
    \/ Tick
    \/ \E r \in BOOLEAN : PollOnce(r)
    \/ ChildSignal
    \/ \E k \in PipeWriteSizes : SignalWrite(k)
    \/ ChildClose
    \/ ChildJoin
    \/ \E k \in PipeReadSizes : ParentRead(k)
    \/ ParentEof

DaemonNext ==
    \/ DaemonRun
    \/ \E outcome \in DaemonOutcomes, e \in DaemonErrs : DaemonFinish(outcome, e)
    \/ SignalEintr
    \/ ParentEintr
    \/ ChildKilled

SpecDaemon == DaemonInit /\ [][DaemonNext]_vars

\* The processes and the clock keep running; nothing is asked of the daemon
\* thread, of the signal that kills, or of ready_check's answer. The
\* interrupted reads and writes, which change nothing but the count of
\* retries, are left to SpecDaemon.
DaemonLiveNext ==
    \/ DaemonRun
    \/ \E outcome \in DaemonOutcomes, e \in DaemonErrs : DaemonFinish(outcome, e)
    \/ ChildKilled

SpecDaemonLive == DaemonInit /\ [][DaemonLiveNext]_vars /\ WF_vars(DaemonRun)

Returned == parentProc.pc = "returned"
Forked == childProc.pc # "none"

\* C32, the part that holds: the parent returns Ok exactly when the child's
\* loop ended with ready_check true; a loop that ended otherwise makes the
\* child report an error and exit with 1; the child exits with 0 only after
\* it reported ready and daemon_fn returned Ok.
C32_ReadyDecides ==
    /\ (Returned /\ parentProc.result.ok) => (Forked /\ childProc.ready)
    /\ (Returned /\ childProc.ready /\ childProc.pc # "killed") => parentProc.result.ok
    /\ (childProc.signals = 1 /\ ~childProc.ready) => ~childProc.result.ok
    /\ (childProc.pc = "exited" /\ ~childProc.ready) => childProc.code = 1
    /\ (childProc.pc = "exited" /\ childProc.code = 0) =>
          /\ childProc.ready
          /\ childProc.result.ok
          /\ childProc.total = Len(childProc.buf)
          /\ dthread.st = "ok"

C35_ParentReturns ==
    /\ <>Returned
    /\ [](childProc.signals <= 1)
    /\ []((childProc.pc = "write" \/ childProc.pc = "close" \/ childProc.pc = "join"
              \/ childProc.pc = "exited") => childProc.signals = 1)
    /\ (childProc.pc = "poll" \/ childProc.pc = "signal")
           ~> (childProc.signals = 1 \/ childProc.pc = "killed")
    /\ []((Returned /\ Forked /\ childProc.total = 0)
              => parentProc.result = RErr(TerminatedUnexpectedly))

C35_Witness ==
    /\ Returned
    /\ childProc.pc = "killed"
    /\ childProc.total = 0
    /\ childProc.signals = 1
    /\ parentProc.result = RErr(TerminatedUnexpectedly)

\* --------------------------------------------------------- handle locks
\* sandbox/src/vfs/sqlite.rs. Every field of a handle is its own
\* std::sync::Mutex (not reentrant); a guard bound by `let` is held to the
\* end of its block and released in reverse order of declaration, a guard
\* used within one statement is released at the end of the statement. Each
\* call is the sequence of its lock, unlock and .await points; one file
\* handle and one directory handle are shared by the threads.

\* The calls one thread makes.
MaxCalls == 2

LockThreads == {"t1", "t2"}
FileLocks == {"data", "offset", "flags", "dirty"}
DirLocks == {"entries", "position"}
Locks == FileLocks \cup DirLocks

Lock(m) == <<"lock", m>>
Unlock(m) == <<"unlock", m>>
Await == <<"await", "fs">>

\* A read that takes the offset before the buffer.
read_offset_first ==
    <<Lock("offset"), Lock("data"), Unlock("data"), Unlock("offset")>>

\* SqliteFileOps::read, lines 378-393: the buffer, then the offset
read_locks == <<Lock("data"), Lock("offset"), Unlock("offset"), Unlock("data")>>

\* The lock, unlock and .await points of a call, in order; b is the branch
\* the call takes (fsync, close: the buffer is dirty; fcntl: the command is
\* F_GETFL or F_SETFL; getdents: the entries are not cached yet)
prog(op, b) ==
    IF op = "read" THEN read_locks
    ELSE IF op = "seek"                                 \* lines 420-438
    THEN <<Lock("data"), Lock("offset"), Unlock("offset"), Unlock("data")>>
    ELSE IF op = "write"                                \* lines 395-418
    THEN <<Lock("data"), Lock("offset"), Lock("flags"), Unlock("flags"),
           Lock("dirty"), Unlock("dirty"), Unlock("offset"), Unlock("data")>>
    ELSE IF op = "fstat"                                \* lines 440-474
    THEN <<Await, Await, Lock("data"), Unlock("data")>>
    ELSE IF op = "fsync" \/ op = "close"                \* lines 476-502, 533-536
    THEN IF b
         THEN <<Lock("dirty"), Unlock("dirty"), Lock("data"), Unlock("data"),
                Await, Await, Await, Await, Lock("dirty"), Unlock("dirty")>>
         ELSE <<Lock("dirty"), Unlock("dirty")>>
    ELSE IF op = "fcntl"                                \* lines 509-521, 538-545
    THEN IF b THEN <<Lock("flags"), Unlock("flags")>> ELSE <<>>
    ELSE IF b                                           \* getdents, lines 661-743
         THEN <<Lock("entries"), Unlock("entries"), Await, Await, Await,
                Lock("entries"), Unlock("entries"),
                Lock("position"), Lock("entries"), Unlock("entries"), Unlock("position")>>
         ELSE <<Lock("entries"), Unlock("entries"),
                Lock("position"), Lock("entries"), Unlock("entries"), Unlock("position")>>

HandleCalls == {"read", "write", "seek", "fstat", "fsync", "fcntl", "close", "getdents"}

IdleThread(left) == [op |-> "idle", prog |-> <<>>, pc |-> 1, left |-> left]

InCall(t) == lthreads[t].op # "idle"
Instr(t) == lthreads[t].prog[lthreads[t].pc]
Held(t) == {m \in Locks : locks[m] = t}

\* The thread after the instruction at its position.
Advance(th) ==
    IF th.pc = Len(th.prog) THEN IdleThread(th.left) ELSE [th EXCEPT !.pc = th.pc + 1]

nonLockVars ==
    <<pathVars, inodes, dirents, handles, calls, content0, ret, ovlVars, notifyVars,
      poolVars, daemonVars>>

\* Thread t calls op on the shared handle.
Call(t, op, b) ==
    /\ ~InCall(t)
    /\ lthreads[t].left > 0
    /\ lthreads' = [lthreads EXCEPT ![t] =
          IF prog(op, b) = <<>> THEN IdleThread(lthreads[t].left - 1)
          ELSE [op |-> op, prog |-> prog(op, b), pc |-> 1, left |-> lthreads[t].left - 1]]
    /\ UNCHANGED <<locks, nonLockVars>>

\* Mutex::lock: the thread goes on when the lock is free
Acquire(t) ==
    /\ InCall(t)
    /\ Instr(t)[1] = "lock"
    /\ locks[Instr(t)[2]] = "free"
    /\ locks' = [locks EXCEPT ![Instr(t)[2]] = t]
    /\ lthreads' = [lthreads EXCEPT ![t] = Advance(lthreads[t])]
    /\ UNCHANGED nonLockVars

\* The drop of a MutexGuard
Release(t) ==
    /\ InCall(t)
    /\ Instr(t)[1] = "unlock"
    /\ locks' = [locks EXCEPT ![Instr(t)[2]] = "free"]
    /\ lthreads' = [lthreads EXCEPT ![t] = Advance(lthreads[t])]
    /\ UNCHANGED nonLockVars

\* The store's future is ready: the call goes on after its .await
Resume(t) ==
    /\ InCall(t)
    /\ Instr(t)[1] = "await"
    /\ lthreads' = [lthreads EXCEPT ![t] = Advance(lthreads[t])]
    /\ UNCHANGED <<locks, nonLockVars>>

ThreadStep(t) == Acquire(t) \/ Release(t) \/ Resume(t)

LockInit ==
    /\ locks = [m \in Locks |-> "free"]
    /\ lthreads = [t \in LockThreads |-> IdleThread(MaxCalls)]
    /\ pathArg = <<>>
    /\ pathRes = [op |-> "none"]
    /\ VfsIdle
    /\ OvlIdle
    /\ NotifyIdle
    /\ PoolIdle
    /\ DaemonIdle

LockNext ==
    \/ \E t \in LockThreads, op \in HandleCalls, b \in BOOLEAN : Call(t, op, b)
    \/ \E t \in LockThreads : Acquire(t)
    \/ \E t \in LockThreads : Release(t)
    \/ \E t \in LockThreads : Resume(t)

\* Every thread that can take a step of its call takes one in the end; the
\* store answers.
SpecLocks ==
    LockInit /\ [][LockNext]_vars /\ \A t \in LockThreads : WF_vars(ThreadStep(t))

\* The order the locks of a handle are taken in.
LockRank(m) ==
    IF m = "data" \/ m = "position" THEN 1
    ELSE IF m = "offset" \/ m = "entries" THEN 2
    ELSE IF m = "flags" THEN 3
    ELSE 4

\* C37: the threads take the locks of a handle in one order, hold none
\* across an .await, are never all blocked while a call is unfinished, and
\* every call completes.
C37_DeadlockFree ==
    /\ [](\A t \in LockThreads : (InCall(t) /\ Instr(t)[1] = "lock") =>
             \A m \in Held(t) : LockRank(m) < LockRank(Instr(t)[2]))
    /\ [](\A t \in LockThreads : (InCall(t) /\ Instr(t)[1] = "await") => Held(t) = {})
    /\ []((\E t \in LockThreads : InCall(t)) => ENABLED (\E u \in LockThreads : ThreadStep(u)))
    /\ \A t \in LockThreads : InCall(t) ~> ~InCall(t)

C37_Witness ==
    /\ lthreads["t1"].op = "write"
    /\ locks["data"] = "t1"
    /\ locks["offset"] = "t1"
    /\ locks["flags"] = "t1"
    /\ lthreads["t2"].op = "read"
    /\ Instr("t2") = Lock("data")
    /\ lthreads["t2"].left = 0

\* ------------------------------------------------- the store's link counts
\* The AgentFS store: inodes with a link count and the dirents, under
\* create_file, mkdir, symlink, link, unlink, rmdir, rename, and open and
\* release of file handles. Here inodes is a function from the inode numbers
\* in use to [kind, nlink, opens], opens being the live handles.

\* The inodes the store may hold, the root included.
MaxInodes == 3

\* The live handles on one inode.
MaxOpens == 1

StoreNames == {<<"a">>, <<"b">>}
StoreInos == 1..MaxInodes

IsDir(st, ino) == ino \in DOMAIN st.inodes /\ st.inodes[ino].kind = "dir"

\* lookup(parent, name): the child, or 0
Child(st, parent, name) ==
    LET ds == {d \in st.dirents : d.parent = parent /\ d.name = name}
    IN IF ds = {} THEN 0 ELSE (CHOOSE d \in ds : TRUE).child

Children(st, dir) == {d \in st.dirents : d.parent = dir}

\* The lowest inode number not in use.
NewIno(st) == CHOOSE i \in 1..(MaxInodes + 1) :
                 /\ i \notin DOMAIN st.inodes
                 /\ \A j \in 1..(i - 1) : j \in DOMAIN st.inodes

StoreErr(st, e) == [inodes |-> st.inodes, dirents |-> st.dirents, r |-> e]
StoreOk(ino, ds) == [inodes |-> ino, dirents |-> ds, r |-> "Ok"]

WithInode(ino, i, rec) == [j \in DOMAIN ino \cup {i} |-> IF j = i THEN rec ELSE ino[j]]
WithoutInode(ino, i) == [j \in DOMAIN ino \ {i} |-> ino[j]]
AddLinks(ino, i, n) == [ino EXCEPT ![i].nlink = @ + n]

\* An inode with no link and no live handle is destroyed.
Reclaim(ino, i) ==
    IF ino[i].nlink = 0 /\ ino[i].opens = 0 THEN WithoutInode(ino, i) ELSE ino

\* create_file and symlink: a new inode with one link, and its dirent
store_create(st, parent, name, kind) ==
    IF ~IsDir(st, parent) THEN StoreErr(st, "NotFound")
    ELSE IF Child(st, parent, name) # 0 THEN StoreErr(st, "AlreadyExists")
    ELSE StoreOk(WithInode(st.inodes, NewIno(st), [kind |-> kind, nlink |-> 1, opens |-> 0]),
                 st.dirents \cup {[parent |-> parent, name |-> name, child |-> NewIno(st)]})

\* mkdir: a new directory with two links; its ".." is a link to the parent
store_mkdir(st, parent, name) ==
    IF ~IsDir(st, parent) THEN StoreErr(st, "NotFound")
    ELSE IF Child(st, parent, name) # 0 THEN StoreErr(st, "AlreadyExists")
    ELSE StoreOk(AddLinks(WithInode(st.inodes, NewIno(st),
                                    [kind |-> "dir", nlink |-> 2, opens |-> 0]),
                          parent, 1),
                 st.dirents \cup {[parent |-> parent, name |-> name, child |-> NewIno(st)]})

\* link: one more dirent for an inode; never for a directory
store_link(st, ino, parent, name) ==
    IF ino \notin DOMAIN st.inodes \/ ~IsDir(st, parent) THEN StoreErr(st, "NotFound")
    ELSE IF IsDir(st, ino) THEN StoreErr(st, "PermissionDenied")
    ELSE IF st.inodes[ino].nlink = 0 THEN StoreErr(st, "NotFound")
    ELSE IF Child(st, parent, name) # 0 THEN StoreErr(st, "AlreadyExists")
    ELSE StoreOk(AddLinks(st.inodes, ino, 1),
                 st.dirents \cup {[parent |-> parent, name |-> name, child |-> ino]})

\* unlink: the dirent goes; the inode goes with its last link unless a
\* handle is live
store_unlink(st, parent, name) ==
    LET c == Child(st, parent, name)
    IN IF c = 0 THEN StoreErr(st, "NotFound")
       ELSE IF IsDir(st, c) THEN StoreErr(st, "IsDirectory")
       ELSE StoreOk(Reclaim(AddLinks(st.inodes, c, -1), c),
                    st.dirents \ {[parent |-> parent, name |-> name, child |-> c]})

\* rmdir: an empty directory goes, and its ".." link to the parent with it
store_rmdir(st, parent, name) ==
    LET c == Child(st, parent, name)
    IN IF c = 0 THEN StoreErr(st, "NotFound")
       ELSE IF ~IsDir(st, c) THEN StoreErr(st, "NotDirectory")
       ELSE IF Children(st, c) # {} THEN StoreErr(st, "NotEmpty")
       ELSE StoreOk(AddLinks(WithoutInode(st.inodes, c), parent, -1),
                    st.dirents \ {[parent |-> parent, name |-> name, child |-> c]})

\* Directory dir is anc or lies below it.
RECURSIVE Below(_, _, _, _)
Below(st, dir, anc, fuel) ==
    \/ dir = anc
    \/ /\ fuel > 0
       /\ \E d \in st.dirents : d.child = dir /\ Below(st, d.parent, anc, fuel - 1)

\* The dirent (sp, sn) moved to (dp, dn), and a moved directory's ".." link
\* moved from sp to dp.
Moved(ino, ds, c, sp, sn, dp, dn) ==
    [inodes |-> IF ino[c].kind = "dir" /\ sp # dp
                THEN AddLinks(AddLinks(ino, sp, -1), dp, 1)
                ELSE ino,
     dirents |-> (ds \ {[parent |-> sp, name |-> sn, child |-> c]})
                    \cup {[parent |-> dp, name |-> dn, child |-> c]},
     r |-> "Ok"]

\* A rename that leaves the link count of the file it replaces as it was.
store_rename_keep_replaced(st, sp, sn, dp, dn) ==
    LET c == Child(st, sp, sn)
        t == Child(st, dp, dn)
    IN IF c = 0 \/ ~IsDir(st, dp) THEN StoreErr(st, "NotFound")
       ELSE IF t = c THEN StoreErr(st, "Ok")
       ELSE IF IsDir(st, c) /\ Below(st, dp, c, MaxInodes) THEN StoreErr(st, "InvalidInput")
       ELSE IF t = 0 THEN Moved(st.inodes, st.dirents, c, sp, sn, dp, dn)
       ELSE IF IsDir(st, c) /\ ~IsDir(st, t) THEN StoreErr(st, "NotDirectory")
       ELSE IF ~IsDir(st, c) /\ IsDir(st, t) THEN StoreErr(st, "IsDirectory")
       ELSE IF Children(st, t) # {} THEN StoreErr(st, "NotEmpty")
       ELSE Moved(st.inodes, st.dirents \ {[parent |-> dp, name |-> dn, child |-> t]},
                  c, sp, sn, dp, dn)

\* rename: the dirent moves; a file in its way is replaced and loses a link,
\* an empty directory in the way of a directory is removed
store_rename(st, sp, sn, dp, dn) ==
    LET c == Child(st, sp, sn)
        t == Child(st, dp, dn)
    IN IF c = 0 \/ ~IsDir(st, dp) THEN StoreErr(st, "NotFound")
       ELSE IF t = c THEN StoreErr(st, "Ok")
       ELSE IF IsDir(st, c) /\ Below(st, dp, c, MaxInodes) THEN StoreErr(st, "InvalidInput")
       ELSE IF t = 0 THEN Moved(st.inodes, st.dirents, c, sp, sn, dp, dn)
       ELSE IF IsDir(st, c) /\ ~IsDir(st, t) THEN StoreErr(st, "NotDirectory")
       ELSE IF ~IsDir(st, c) /\ IsDir(st, t) THEN StoreErr(st, "IsDirectory")
       ELSE IF IsDir(st, t)
       THEN IF Children(st, t) # {} THEN StoreErr(st, "NotEmpty")
            ELSE Moved(AddLinks(WithoutInode(st.inodes, t), dp, -1),
                       st.dirents \ {[parent |-> dp, name |-> dn, child |-> t]},
                       c, sp, sn, dp, dn)
       ELSE Moved(Reclaim(AddLinks(st.inodes, t, -1), t),
                  st.dirents \ {[parent |-> dp, name |-> dn, child |-> t]},
                  c, sp, sn, dp, dn)

\* open(ino): one more live handle on a file
store_open(st, ino) ==
    IF ino \notin DOMAIN st.inodes THEN StoreErr(st, "NotFound")
    ELSE IF st.inodes[ino].kind # "file" THEN StoreErr(st, "InvalidInput")
    ELSE StoreOk([st.inodes EXCEPT ![ino].opens = @ + 1], st.dirents)

\* release(ino): a handle is closed; the last close of an unlinked inode
\* destroys it
store_release(st, ino) ==
    StoreOk(Reclaim([st.inodes EXCEPT ![ino].opens = @ - 1], ino), st.dirents)

TheStore == [inodes |-> inodes, dirents |-> dirents]

nonStoreVars == <<handles, calls, content0, otherVars>>

\* A call of the store: its result replaces the store and is recorded.
StoreApply(op, res) ==
    /\ DOMAIN res.inodes \subseteq StoreInos
    /\ inodes' = res.inodes
    /\ dirents' = res.dirents
    /\ ret' = [op |-> op, r |-> res.r]
    /\ UNCHANGED nonStoreVars

NewKinds == {"file", "symlink"}

\* The calls name inodes the store holds.
StoreCreateFile(parent, name, kind) ==
    /\ parent \in DOMAIN inodes
    /\ StoreApply(IF kind = "file" THEN "create_file" ELSE "symlink",
                  store_create(TheStore, parent, name, kind))
StoreMkdir(parent, name) ==
    /\ parent \in DOMAIN inodes
    /\ StoreApply("mkdir", store_mkdir(TheStore, parent, name))
StoreLink(ino, parent, name) ==
    /\ ino \in DOMAIN inodes
    /\ parent \in DOMAIN inodes
    /\ StoreApply("link", store_link(TheStore, ino, parent, name))
StoreUnlink(parent, name) ==
    /\ parent \in DOMAIN inodes
    /\ StoreApply("unlink", store_unlink(TheStore, parent, name))
StoreRmdir(parent, name) ==
    /\ parent \in DOMAIN inodes
    /\ StoreApply("rmdir", store_rmdir(TheStore, parent, name))
StoreMove(sp, sn, dp, dn) ==
    /\ sp \in DOMAIN inodes
    /\ dp \in DOMAIN inodes
    /\ StoreApply("rename", store_rename(TheStore, sp, sn, dp, dn))
StoreOpen(ino) ==
    /\ ino \in DOMAIN inodes
    /\ inodes[ino].opens < MaxOpens
    /\ StoreApply("open", store_open(TheStore, ino))
StoreRelease(ino) ==
    /\ ino \in DOMAIN inodes
    /\ inodes[ino].opens > 0
    /\ StoreApply("release", store_release(TheStore, ino))

StoreInit ==
    /\ inodes = [i \in {ROOT_INO} |-> [kind |-> "dir", nlink |-> 2, opens |-> 0]]
    /\ dirents = {}
    /\ handles = <<>>
    /\ calls = <<>>
    /\ content0 = <<>>
    /\ ret = [op |-> "none"]
    /\ pathArg = <<>>
    /\ pathRes = [op |-> "none"]
    /\ OvlIdle
    /\ SideIdle

StoreNext ==
    \/ \E parent \in StoreInos, name \in StoreNames, kind \in NewKinds :
          StoreCreateFile(parent, name, kind)
    \/ \E parent \in StoreInos, name \in StoreNames : StoreMkdir(parent, name)
    \/ \E ino \in StoreInos, parent \in StoreInos, name \in StoreNames :
          StoreLink(ino, parent, name)
    \/ \E parent \in StoreInos, name \in StoreNames : StoreUnlink(parent, name)
    \/ \E parent \in StoreInos, name \in StoreNames : StoreRmdir(parent, name)
    \/ \E sp \in StoreInos, sn \in StoreNames, dp \in StoreInos, dn \in StoreNames :
          StoreMove(sp, sn, dp, dn)
    \/ \E ino \in StoreInos : StoreOpen(ino)
    \/ \E ino \in StoreInos : StoreRelease(ino)

SpecStore == StoreInit /\ [][StoreNext]_vars

Refs(ino) == {d \in dirents : d.child = ino}
Subdirs(ino) == {d \in dirents : d.parent = ino /\ inodes[d.child].kind = "dir"}

\* C31: every dirent's child and parent exist, no (parent, name) has two
\* dirents, a file's or symlink's nlink is the number of dirents that
\* reference it, a directory's is 2 + the number of its subdirectories, and
\* an inode with nlink 0 exists only while a handle on it is live.
C31_LinkCounts ==
    /\ \A d \in dirents : d.child \in DOMAIN inodes /\ IsDir(TheStore, d.parent)
    /\ \A d, e \in dirents : (d.parent = e.parent /\ d.name = e.name) => d = e
    /\ ROOT_INO \in DOMAIN inodes
    /\ \A ino \in DOMAIN inodes :
          IF inodes[ino].kind = "dir"
          THEN /\ inodes[ino].nlink = 2 + Cardinality(Subdirs(ino))
               /\ Cardinality(Refs(ino)) = IF ino = ROOT_INO THEN 0 ELSE 1
          ELSE /\ inodes[ino].nlink = Cardinality(Refs(ino))
               /\ inodes[ino].nlink = 0 => inodes[ino].opens > 0

C31_Witness ==
    /\ ret.op = "link"
    /\ ret.r = "Ok"
    /\ \E ino \in DOMAIN inodes : inodes[ino].nlink = 0 /\ inodes[ino].opens > 0
    /\ \E ino \in DOMAIN inodes : inodes[ino].kind = "file" /\ inodes[ino].nlink = 2

====
